---- MODULE Spec2Model ----
(***************************************************************************)
(* A model of aws-lambda-proxy: the route table of API (proxy.py), the     *)
(* path-template compiler and value converters (routing.py, patterns.py)   *)
(* the API Gateway path normaliser ApigwPath (gateway.py) and the          *)
(* dispatcher API.__call__ (proxy.py).                                     *)
(*                                                                         *)
(* Python strings are sequences of one-character strings, so that          *)
(* substitution, searching and matching are computed character by          *)
(* character as the code's regular expressions and str methods do.         *)
(***************************************************************************)
EXTENDS Integers, Sequences, FiniteSets, TLC

VARIABLES
    routes,   \* API.routes: the ordered list of RouteEntry
    pre,      \* API.routes as it was when the last operation started
    op,       \* the operation that ran last
    arg,      \* its arguments
    res,      \* its outcome: the value returned or the exception raised
    api,      \* the other fields of the API object: event, context,
              \* request_path, https
    heap,     \* the event dicts handed to the API, by the call they belong to
    calls,    \* the calls of API.__call__: position and local variables
    environ   \* os.environ: the value of TOKEN

\* The state of the dispatcher
dvars == <<api, heap, calls, environ>>

vars == <<routes, pre, op, arg, res, api, heap, calls, environ>>

-----------------------------------------------------------------------------
(* Characters and character classes used by the patterns.                  *)

NL == "\n"

Digits == {"0", "1", "2", "3", "4", "5", "6", "7", "8", "9"}

Lower == {"a", "b", "c", "d", "e", "f", "g", "h", "i", "j", "k", "l", "m",
          "n", "o", "p", "q", "r", "s", "t", "u", "v", "w", "x", "y", "z"}

Upper == {"A", "B", "C", "D", "E", "F", "G", "H", "I", "J", "K", "L", "M",
          "N", "O", "P", "Q", "R", "S", "T", "U", "V", "W", "X", "Y", "Z"}

\* [a-zA-Z0-9_]
WordChars == Lower \cup Upper \cup Digits \cup {"_"}

\* [0-9a-f]
HexChars == Digits \cup {"a", "b", "c", "d", "e", "f"}

\* Python's None, and the marker of an absent dictionary key: neither is a
\* sequence of single characters.
NoneVal == <<"None">>
Absent == <<"Absent">>

-----------------------------------------------------------------------------
(* str methods.                                                            *)

\* s[i:].startswith(p), 1-based
StartsAt(s, p, i) ==
    /\ i >= 1
    /\ i + Len(p) - 1 <= Len(s)
    /\ \A k \in 1..Len(p) : s[i + k - 1] = p[k]

\* p in s
Contains(s, p) == \E i \in 1..(Len(s) + 1) : StartsAt(s, p, i)

\* s.find(p, from): the first index >= from at which p occurs, 0 if none
RECURSIVE Find(_, _, _)
Find(s, p, from) ==
    IF from + Len(p) - 1 > Len(s) THEN 0
    ELSE IF StartsAt(s, p, from) THEN from
    ELSE Find(s, p, from + 1)

\* s[i:], 1-based
Drop(s, i) == SubSeq(s, i, Len(s))

\* s.rstrip(c): every trailing c is removed
RECURSIVE RStrip(_, _)
RStrip(s, c) ==
    IF Len(s) > 0 /\ s[Len(s)] = c THEN RStrip(SubSeq(s, 1, Len(s) - 1), c)
    ELSE s

\* A bug RStrip could have: only one trailing c is removed.
RStripOnce(s, c) ==
    IF Len(s) > 0 /\ s[Len(s)] = c THEN SubSeq(s, 1, Len(s) - 1) ELSE s

\* s.replace(old, new) for a non-empty old: every non-overlapping occurrence,
\* left to right, is replaced. (With old empty and new empty s is returned.)
RECURSIVE StrReplace(_, _, _)
StrReplace(s, old, new) ==
    LET At(i) == IF i = 0 THEN s
                 ELSE SubSeq(s, 1, i - 1) \o new
                          \o StrReplace(Drop(s, i + Len(old)), old, new)
    IN IF Len(old) = 0 THEN s ELSE At(Find(s, old, 1))

\* s.replace(old, new, 1): the first occurrence only.
StrReplaceFirst(s, old, new) ==
    IF Len(old) = 0 THEN s
    ELSE LET i == Find(s, old, 1)
         IN IF i = 0 THEN s
            ELSE SubSeq(s, 1, i - 1) \o new \o Drop(s, i + Len(old))

-----------------------------------------------------------------------------
(* Python values.                                                          *)

\* 'None'
NoneText == <<"N", "o", "n", "e">>

\* str(v) as an f-string renders it
PyStr(v) == IF v = NoneVal THEN NoneText ELSE v

\* bool(v) of a string or None
Truthy(v) == v # NoneVal /\ v # Absent /\ v # <<>>

\* A dict is a sequence of <<key, value>> pairs with distinct keys, in
\* insertion order. d.get(k): None when k is no key of d.
DictKeys(d) == {d[i][1] : i \in 1..Len(d)}

DictGet(d, k) ==
    IF k \in DictKeys(d)
    THEN d[CHOOSE i \in 1..Len(d) : d[i][1] = k][2]
    ELSE NoneVal

\* No request is dispatched: the dispatcher's state is left out.
NoDispatch ==
    api = NoneVal /\ heap = NoneVal /\ calls = NoneVal /\ environ = NoneVal

\* The outcome of a call: a returned value or a raised exception.
Ok(v) == [err |-> "None", val |-> v]
Raise(e) == [err |-> e, val |-> NoneVal]

-----------------------------------------------------------------------------
(* Regular expressions, as Python's re module matches them.                *)
(*                                                                         *)
(* A compiled pattern is a tree of nodes:                                  *)
(*   [t |-> "chr", c]    the character c                                   *)
(*   [t |-> "any"]       .       any character but a newline               *)
(*   [t |-> "cls", s]    [...]   a character of the set s                  *)
(*   [t |-> "seq", xs]   the nodes xs one after the other                  *)
(*   [t |-> "opt", x]    x?      greedy                                    *)
(*   [t |-> "plus", x]   x+      greedy                                    *)
(*   [t |-> "rep", x, n] x{n}                                              *)
(*   [t |-> "grp", k, x] (x)     capturing group number k                  *)
(*   [t |-> "bol"]       ^                                                 *)
(*   [t |-> "eol"]       $       the end, or before a newline at the end   *)
(*   [t |-> "end"]       \Z      the end                                   *)
(* Matching returns the ways a node can match s from position i, as        *)
(* [j, caps] (the position after the match and the groups captured), in    *)
(* the order in which the backtracking matcher tries them.                 *)

Chr(c) == [t |-> "chr", c |-> c]
AnyChar == [t |-> "any"]
Cls(s) == [t |-> "cls", s |-> s]
SeqOf(xs) == [t |-> "seq", xs |-> xs]
Opt(x) == [t |-> "opt", x |-> x]
Plus(x) == [t |-> "plus", x |-> x]
Rep(x, n) == [t |-> "rep", x |-> x, n |-> n]
Grp(x) == [t |-> "grp", k |-> 0, x |-> x]
Bol == [t |-> "bol"]
Eol == [t |-> "eol"]
End == [t |-> "end"]

RECURSIVE MatchNode(_, _, _, _)
RECURSIVE MatchSeq(_, _, _, _)
RECURSIVE ThenSeq(_, _, _)
RECURSIVE MatchPlus(_, _, _, _)
RECURSIVE ThenPlus(_, _, _, _)
RECURSIVE MatchRep(_, _, _, _, _)
RECURSIVE ThenRep(_, _, _, _)

One(j, caps) == <<[j |-> j, caps |-> caps]>>

\* The group k of each result is set to the text matched from i.
SetGroup(rs, k, s, i) ==
    [r \in 1..Len(rs) |->
        [j |-> rs[r].j,
         caps |-> [rs[r].caps EXCEPT ![k] = SubSeq(s, i, rs[r].j - 1)]]]

MatchNode(n, s, i, caps) ==
    CASE n.t = "chr" ->
            IF i <= Len(s) /\ s[i] = n.c THEN One(i + 1, caps) ELSE <<>>
      [] n.t = "any" ->
            IF i <= Len(s) /\ s[i] # NL THEN One(i + 1, caps) ELSE <<>>
      [] n.t = "cls" ->
            IF i <= Len(s) /\ s[i] \in n.s THEN One(i + 1, caps) ELSE <<>>
      [] n.t = "seq" -> MatchSeq(n.xs, s, i, caps)
      [] n.t = "opt" -> MatchNode(n.x, s, i, caps) \o One(i, caps)
      [] n.t = "plus" -> MatchPlus(n.x, s, i, caps)
      [] n.t = "rep" -> MatchRep(n.x, n.n, s, i, caps)
      [] n.t = "grp" -> SetGroup(MatchNode(n.x, s, i, caps), n.k, s, i)
      [] n.t = "bol" -> IF i = 1 THEN One(i, caps) ELSE <<>>
      [] n.t = "eol" ->
            IF i = Len(s) + 1 \/ (i = Len(s) /\ s[i] = NL)
            THEN One(i, caps) ELSE <<>>
      [] n.t = "end" -> IF i = Len(s) + 1 THEN One(i, caps) ELSE <<>>

MatchSeq(xs, s, i, caps) ==
    IF xs = <<>> THEN One(i, caps)
    ELSE ThenSeq(MatchNode(Head(xs), s, i, caps), Tail(xs), s)

ThenSeq(rs, xs, s) ==
    IF rs = <<>> THEN <<>>
    ELSE MatchSeq(xs, s, rs[1].j, rs[1].caps) \o ThenSeq(Tail(rs), xs, s)

\* x+ : one x, then as many more as possible before fewer
MatchPlus(x, s, i, caps) == ThenPlus(MatchNode(x, s, i, caps), x, s, i)

ThenPlus(rs, x, s, i) ==
    IF rs = <<>> THEN <<>>
    ELSE (IF rs[1].j > i THEN MatchPlus(x, s, rs[1].j, rs[1].caps) ELSE <<>>)
             \o <<rs[1]>> \o ThenPlus(Tail(rs), x, s, i)

MatchRep(x, n, s, i, caps) ==
    IF n = 0 THEN One(i, caps)
    ELSE ThenRep(MatchNode(x, s, i, caps), x, n - 1, s)

ThenRep(rs, x, n, s) ==
    IF rs = <<>> THEN <<>>
    ELSE MatchRep(x, n, s, rs[1].j, rs[1].caps) \o ThenRep(Tail(rs), x, n, s)

\* re.compile numbers the groups of a pattern in the order of their opening
\* parentheses. Number(n, k) numbers the groups of n from k + 1 and returns
\* the numbered node with the last number used.
RECURSIVE Number(_, _)
RECURSIVE NumberSeq(_, _)
Number(n, k) ==
    LET Group(in) == [n |-> [t |-> "grp", k |-> k + 1, x |-> in.n], k |-> in.k]
        Inner(in) == [n |-> [n EXCEPT !.x = in.n], k |-> in.k]
        Nodes(in) == [n |-> SeqOf(in.n), k |-> in.k]
    IN CASE n.t = "grp" -> Group(Number(n.x, k + 1))
         [] n.t \in {"opt", "plus", "rep"} -> Inner(Number(n.x, k))
         [] n.t = "seq" -> Nodes(NumberSeq(n.xs, k))
         [] OTHER -> [n |-> n, k |-> k]

NumberSeq(xs, k) ==
    LET Both(h, r) == [n |-> <<h.n>> \o r.n, k |-> r.k]
        After(h) == Both(h, NumberSeq(Tail(xs), h.k))
    IN IF xs = <<>> THEN [n |-> <<>>, k |-> k]
       ELSE After(Number(Head(xs), k))

\* re.compile(expr).match(s): the first way the pattern matches at the start
\* of s, with .groups() (None for a group that took no part), or no match.
ReMatch(expr, s) ==
    LET First(rs) == IF rs = <<>> THEN [found |-> FALSE, groups |-> <<>>]
                     ELSE [found |-> TRUE, groups |-> rs[1].caps]
        Match(c) == First(MatchNode(c.n, s, 1, [k \in 1..c.k |-> NoneVal]))
    IN Match(Number(expr, 0))

-----------------------------------------------------------------------------
(* routing.py and patterns.py: path templates.                             *)
(*                                                                         *)
(* While _path_to_regex rewrites a template, the text is a sequence of     *)
(* items: a character not yet rewritten ("chr") or the group a placeholder *)
(* was replaced by. The replacement texts hold no '<', '>' or ':' so a     *)
(* later pass never matches inside them.                                   *)

Lit(path) == [i \in 1..Len(path) |-> Chr(path[i])]

IsChr(it, c) == it.t = "chr" /\ it.c = c

IsWord(it) == it.t = "chr" /\ it.c \in WordChars

AllChr(items) == \A i \in 1..Len(items) : items[i].t = "chr"

\* The characters of items that are all "chr"
Text(items) == [i \in 1..Len(items) |-> items[i].c]

\* The number of [a-zA-Z0-9_] characters of items from position i on
RECURSIVE WordRun(_, _)
WordRun(items, i) ==
    IF i <= Len(items) /\ IsWord(items[i]) THEN 1 + WordRun(items, i + 1)
    ELSE 0

\* The length of the match of '<' prefix [a-zA-Z0-9_]+ '>' at position i of
\* items, 0 when it does not match there.
PlaceholderLen(items, i, prefix) ==
    LET Upto(close) ==
            IF /\ IsChr(items[i], "<")
               /\ StartsAt(items, Lit(prefix), i + 1)
               /\ close > i + 1 + Len(prefix)
               /\ close <= Len(items)
               /\ IsChr(items[close], ">")
            THEN close - i + 1
            ELSE 0
    IN Upto(i + 1 + Len(prefix) + WordRun(items, i + 1 + Len(prefix)))

\* re.sub(r"<prefix[a-zA-Z0-9_]+>", group, path): every match, left to
\* right, is replaced by the group.
RECURSIVE SubPlaceholder(_, _, _)
SubPlaceholder(items, prefix, group) ==
    LET Sub(n) ==
            IF n > 0
            THEN <<group>> \o SubPlaceholder(Drop(items, n + 1), prefix, group)
            ELSE <<Head(items)>> \o SubPlaceholder(Tail(items), prefix, group)
    IN IF items = <<>> THEN <<>> ELSE Sub(PlaceholderLen(items, 1, prefix))

\* 'string:' 'int:' 'float:' 'uuid:' '<regex' '<regex(' '):'
StringPrefix == <<"s", "t", "r", "i", "n", "g", ":">>
IntPrefix == <<"i", "n", "t", ":">>
FloatPrefix == <<"f", "l", "o", "a", "t", ":">>
UuidPrefix == <<"u", "u", "i", "d", ":">>
RegexOpen == <<"<", "r", "e", "g", "e", "x">>
RegexOpenParen == <<"<", "r", "e", "g", "e", "x", "(">>
ParenColon == <<")", ":">>

\* ([a-zA-Z0-9_]+)
WordGroup == Grp(Plus(Cls(WordChars)))

\* A bug IntGroup could have: the class of the bare placeholder.
IntGroupAsWord == Grp(Plus(Cls(WordChars)))

\* ([0-9]+)
IntGroup == Grp(Plus(Cls(Digits)))

\* ([+-]?[0-9]+.[0-9]+) : the dot is not escaped
FloatGroup ==
    Grp(SeqOf(<<Opt(Cls({"+", "-"})), Plus(Cls(Digits)), AnyChar,
                Plus(Cls(Digits))>>))

\* ([0-9a-f]{8}-[0-9a-f]{4}-[0-9a-f]{4}-[0-9a-f]{4}-[0-9a-f]{12})
UuidGroup ==
    Grp(SeqOf(<<Rep(Cls(HexChars), 8), Chr("-"), Rep(Cls(HexChars), 4),
                Chr("-"), Rep(Cls(HexChars), 4), Chr("-"),
                Rep(Cls(HexChars), 4), Chr("-"), Rep(Cls(HexChars), 12)>>))

\* The inline patterns of the regex placeholders of the model, as re parses
\* them. 'u(\d+)?'  '.+'
PatUserNum == <<"u", "(", "\\", "d", "+", ")", "?">>
PatAnything == <<".", "+">>

\* A literal character of a pattern as re reads it: '.' is any character.
Literal(it) == IF IsChr(it, ".") THEN AnyChar ELSE it

ParsePattern(src) ==
    CASE src = PatUserNum -> SeqOf(<<Chr("u"), Opt(Grp(Plus(Cls(Digits))))>>)
      [] src = PatAnything -> Plus(AnyChar)
      [] OTHER -> SeqOf([i \in 1..Len(src) |-> Literal(Chr(src[i]))])

\* The first '>' of items at or after position i, 0 if none
RECURSIVE FindClose(_, _)
FindClose(items, i) ==
    IF i > Len(items) THEN 0
    ELSE IF IsChr(items[i], ">") THEN i
    ELSE FindClose(items, i + 1)

\* re.findall(r"(<regex[^>]*>)", path): the first match, as [from, to]
FirstRegexParam(items) ==
    LET Span(i, j) == IF j = 0 THEN [found |-> FALSE]
                      ELSE [found |-> TRUE, from |-> i, to |-> j]
        From(i) ==
            Span(i, IF i = 0 THEN 0 ELSE FindClose(items, i + Len(RegexOpen)))
    IN From(Find(items, Lit(RegexOpen), 1))

\* regex_pattern.search(param) of a param '<regex...>' without an inner
\* '>': its groups "pattern" and "name", or no match (None).
\*   ^<(?P<type>regex)\((?P<pattern>.+)\):(?P<name>[a-zA-Z0-9_]+)>$
RegexPattern(param) ==
    LET n == Len(param)
        \* the name is the run of word characters before the final '>'
        splits == {c \in (Len(RegexOpenParen) + 2)..(n - 3) :
                      /\ StartsAt(param, Lit(ParenColon), c)
                      /\ \A k \in (c + 2)..(n - 1) : IsWord(param[k])
                      /\ \A k \in (Len(RegexOpenParen) + 1)..(c - 1) :
                             ~IsChr(param[k], NL)}
        Groups(c) ==
            [found |-> TRUE,
             pattern |-> SubSeq(param, Len(RegexOpenParen) + 1, c - 1),
             name |-> SubSeq(param, c + 2, n - 1)]
        Split(S) ==
            IF /\ StartsAt(param, Lit(RegexOpenParen), 1)
               /\ IsChr(param[n], ">")
               /\ S # {}
            THEN Groups(CHOOSE c \in S : TRUE)
            ELSE [found |-> FALSE]
    IN Split(splits)

\* The group f"({expr})" a regex placeholder is replaced by
RegexGroup(pattern) ==
    Grp(IF AllChr(pattern) THEN ParsePattern(Text(pattern))
        ELSE SeqOf(pattern))

\* The loop of _path_to_regex over the '<regex...>' placeholders: each is
\* replaced, wherever it occurs, by the group of its inline pattern. A
\* placeholder regex_pattern does not match makes matches None, and
\* matches.groupdict() raises AttributeError.
RECURSIVE SubRegex(_)
SubRegex(items) ==
    LET Sub(param, matches) ==
            IF ~matches.found THEN Raise("AttributeError")
            ELSE SubRegex(StrReplace(items, param,
                                     <<RegexGroup(matches.pattern)>>))
        SubParam(param) == Sub(param, RegexPattern(param))
        SubAt(m) == IF ~m.found THEN Ok(items)
                    ELSE SubParam(SubSeq(items, m.from, m.to))
    IN SubAt(FirstRegexParam(items))

\* _path_to_regex(path): the anchored match expression, compiled
PathToRegex(path) ==
    LET bare == SubPlaceholder(Lit(path), <<>>, WordGroup)
        str == SubPlaceholder(bare, StringPrefix, WordGroup)
        int == SubPlaceholder(str, IntPrefix, IntGroup)
        float == SubPlaceholder(int, FloatPrefix, FloatGroup)
        uuid == SubPlaceholder(float, UuidPrefix, UuidGroup)
        Anchored(regex) ==
            IF regex.err # "None" THEN regex
            ELSE Ok(SeqOf(<<Bol>>
                          \o [i \in 1..Len(regex.val) |-> Literal(regex.val[i])]
                          \o <<Eol>>))
    IN Anchored(SubRegex(uuid))

\* params_expr.finditer(path): the texts matching (<[^>]*>), left to right
RECURSIVE ParamsExpr(_)
ParamsExpr(path) ==
    LET Span(i, j) ==
            IF j = 0 THEN <<>>
            ELSE <<SubSeq(path, i, j)>> \o ParamsExpr(Drop(path, j + 1))
        From(i) == Span(i, IF i = 0 THEN 0 ELSE Find(path, <<">">>, i + 1))
    IN From(Find(path, <<"<">>, 1))

\* The number of [a-zA-Z0-9_] characters of s that end at position i
RECURSIVE WordRunBack(_, _)
WordRunBack(s, i) ==
    IF i >= 1 /\ s[i] \in WordChars THEN 1 + WordRunBack(s, i - 1) ELSE 0

\* param_pattern.match(arg): the groups "type", "pattern" and "name" (None
\* for a group that took no part), or no match.
\*   ^<((?P<type>[a-zA-Z0-9_]+)(\((?P<pattern>.+)\))?\:)?(?P<name>[a-zA-Z0-9_]+)>$
ParamPattern(path_arg) ==
    LET none == [found |-> FALSE]
        Groups(type, pattern, name) ==
            [found |-> TRUE, type |-> type, pattern |-> pattern,
             name |-> name]
        \* mid: what stands between the type and the ':'
        Typed(type, mid, name) ==
            IF mid = <<>> THEN Groups(type, NoneVal, name)
            ELSE IF /\ Len(mid) >= 3
                    /\ mid[1] = "(" /\ mid[Len(mid)] = ")"
                    /\ \A k \in 2..(Len(mid) - 1) : mid[k] # NL
                 THEN Groups(type, SubSeq(mid, 2, Len(mid) - 1), name)
            ELSE none
        \* head: what stands between '<' and the name, tw: the length of
        \* the word it starts with
        Headed(head, tw, name) ==
            IF head = <<>> THEN Groups(NoneVal, NoneVal, name)
            ELSE IF ~(head[Len(head)] = ":" /\ tw >= 1) THEN none
            ELSE Typed(SubSeq(head, 1, tw),
                       SubSeq(head, tw + 1, Len(head) - 1), name)
        Named(head, name) == Headed(head, WordRun(Lit(head), 1), name)
        \* n: the end, before a final newline, w: the length of the name
        Ended(n, w) ==
            IF ~(n >= 3 /\ path_arg[1] = "<" /\ path_arg[n] = ">" /\ w >= 1)
            THEN none
            ELSE Named(SubSeq(path_arg, 2, n - w - 1),
                       SubSeq(path_arg, n - w, n - 1))
        Upto(n) == Ended(n, IF n >= 2 THEN WordRunBack(path_arg, n - 1) ELSE 0)
    IN Upto(IF Len(path_arg) > 0 /\ path_arg[Len(path_arg)] = NL
            THEN Len(path_arg) - 1
            ELSE Len(path_arg))

-----------------------------------------------------------------------------
(* routing.py: _converters, and the int() and float() it calls.            *)

\* Typed Python values: [ty |-> "str" | "int" | "float" | "None", val].
\* A float is <<m, e>>, the number m * 10^e with m not divisible by 10.
StrVal(s) == IF s = NoneVal THEN [ty |-> "None", val |-> NoneVal]
             ELSE [ty |-> "str", val |-> s]

DigitSeq == <<"0", "1", "2", "3", "4", "5", "6", "7", "8", "9">>

DigitVal(c) == (CHOOSE i \in 1..10 : DigitSeq[i] = c) - 1

\* The number written by the digits of s; an '_' between digits is skipped
RECURSIVE DigitsVal(_)
DigitsVal(s) ==
    IF s = <<>> THEN 0
    ELSE IF s[Len(s)] = "_" THEN DigitsVal(SubSeq(s, 1, Len(s) - 1))
    ELSE 10 * DigitsVal(SubSeq(s, 1, Len(s) - 1)) + DigitVal(s[Len(s)])

\* The number of digits of s
DigitCount(s) == Cardinality({i \in 1..Len(s) : s[i] \in Digits})

\* [0-9]+(_[0-9]+)* : digits, with single underscores between them
DigitPart ==
    SeqOf(<<Plus(Cls(Digits)),
            Opt(Plus(SeqOf(<<Chr("_"), Plus(Cls(Digits))>>)))>>)

\* What int() accepts: whitespace, a sign, digits, whitespace
IntSyntax ==
    SeqOf(<<Opt(Plus(Chr(NL))), Grp(Opt(Cls({"+", "-"}))), Grp(DigitPart),
            Opt(Plus(Chr(NL))), End>>)

\* What float() accepts of decimal and exponent notation: whitespace, a
\* sign, digits, a fraction, an exponent, whitespace. (The words inf and
\* nan and a fraction without leading digits occur in no path of the model.)
FloatSyntax ==
    SeqOf(<<Opt(Plus(Chr(NL))), Grp(Opt(Cls({"+", "-"}))), Grp(DigitPart),
            Opt(SeqOf(<<Chr("."), Grp(Opt(DigitPart))>>)),
            Opt(SeqOf(<<Cls({"e", "E"}),
                        Grp(Opt(Cls({"+", "-"}))), Grp(DigitPart)>>)),
            Opt(Plus(Chr(NL))), End>>)

Signed(sign, n) == IF sign = <<"-">> THEN 0 - n ELSE n

\* int(value)
IntOf(value) ==
    LET Parsed(m) ==
            IF ~m.found THEN Raise("ValueError")
            ELSE Ok([ty |-> "int",
                     val |-> Signed(m.groups[1], DigitsVal(m.groups[2]))])
    IN IF value = NoneVal THEN Raise("TypeError")
       ELSE Parsed(ReMatch(IntSyntax, value))

\* m * 10^e with the trailing zeros of m moved into e
RECURSIVE Normal(_, _)
Normal(m, e) ==
    IF m = 0 THEN <<0, 0>>
    ELSE IF m % 10 = 0 THEN Normal(m \div 10, e + 1)
    ELSE <<m, e>>

\* float(value)
FloatOf(value) ==
    LET Number10(sign, whole, frac, exp) ==
            Ok([ty |-> "float",
                val |-> Normal(Signed(sign, DigitsVal(whole \o frac)),
                               exp - DigitCount(frac))])
        Parsed(m) ==
            IF ~m.found THEN Raise("ValueError")
            ELSE Number10(m.groups[1], m.groups[2],
                          IF m.groups[3] = NoneVal THEN <<>> ELSE m.groups[3],
                          IF m.groups[5] = NoneVal THEN 0
                          ELSE Signed(m.groups[4], DigitsVal(m.groups[5])))
    IN IF value = NoneVal THEN Raise("TypeError")
       ELSE Parsed(ReMatch(FloatSyntax, value))

\* 'int' 'float'
IntType == <<"i", "n", "t">>
FloatType == <<"f", "l", "o", "a", "t">>

\* A bug _converters could have: the int branch is missing.
ConvertersNoInt(value, path_arg) ==
    LET Convert(match) ==
            IF match.found /\ match.type = FloatType THEN FloatOf(value)
            ELSE Ok(StrVal(value))
    IN Convert(ParamPattern(path_arg))

\* _converters(value, path_arg)
Converters(value, path_arg) ==
    LET Convert(match) ==
            IF match.found /\ match.type = IntType THEN IntOf(value)
            ELSE IF match.found /\ match.type = FloatType THEN FloatOf(value)
            ELSE Ok(StrVal(value))
    IN Convert(ParamPattern(path_arg))

-----------------------------------------------------------------------------
(* routing.py: RouteEntry.                                                 *)

\* 'gzip' 'zlib' 'deflate'
Gzip == <<"g", "z", "i", "p">>
Zlib == <<"z", "l", "i", "b">>
Deflate == <<"d", "e", "f", "l", "a", "t", "e">>

\* methods or ["GET"]
MethodsOrGet(methods) == IF methods = <<>> THEN <<"GET">> ELSE methods

\* re.findall(r"(<regex[^>]*>)", path): the matches, left to right
RECURSIVE RegexParams(_)
RegexParams(path) ==
    LET Span(i, j) ==
            IF j = 0 THEN <<>>
            ELSE <<SubSeq(path, i, j)>> \o RegexParams(Drop(path, j + 1))
        From(i) ==
            Span(i, IF i = 0 THEN 0
                    ELSE Find(path, <<">">>, i + Len(RegexOpen)))
    IN From(Find(path, RegexOpen, 1))

\* The loop of _path_to_openapi over the '<regex...>' placeholders: each
\* is replaced, wherever it occurs, by f"<regex:{name}>". A placeholder
\* regex_pattern does not match makes search return None, and
\* None.groupdict() raises AttributeError.
RECURSIVE RegexToNamed(_, _)
RegexToNamed(params, path) ==
    LET Named(match) ==
            IF ~match.found THEN Raise("AttributeError")
            ELSE RegexToNamed(Tail(params),
                     StrReplace(path, Head(params),
                                RegexOpen \o <<":">> \o Text(match.name)
                                    \o <<">">>))
    IN IF params = <<>> THEN Ok(path)
       ELSE Named(RegexPattern(Lit(Head(params))))

\* re.sub(r"<([a-zA-Z0-9_]+\:)?", "{", path)
RECURSIVE SubOpen(_)
SubOpen(path) ==
    LET Typed(n) == n > 0 /\ n + 2 <= Len(path) /\ path[n + 2] = ":"
        Open(n) ==
            <<"{">> \o SubOpen(Drop(path, IF Typed(n) THEN n + 3 ELSE 2))
    IN IF path = <<>> THEN <<>>
       ELSE IF Head(path) = "<" THEN Open(WordRun(Lit(path), 2))
       ELSE <<Head(path)>> \o SubOpen(Tail(path))

\* re.sub(r">", "}", path)
SubClose(path) ==
    [i \in 1..Len(path) |-> IF path[i] = ">" THEN "}" ELSE path[i]]

\* _path_to_openapi(path)
PathToOpenapi(path) ==
    LET Braces(named) ==
            IF named.err # "None" THEN named
            ELSE Ok(SubClose(SubOpen(named.val)))
    IN Braces(RegexToNamed(RegexParams(path), path))

\* RouteEntry(endpoint, path, methods, cors, token,
\* payload_compression_method, binary_b64encode, ttl, cache_control, ...):
\* the route, or the exception of its constructor. The ttl None is
\* written 0: the code only asks whether it is true.
RouteEntry(endpoint, path, methods, cors, token, compression, b64encode, ttl, cache_control) ==
    LET Entry(route_regex, openapi_path) ==
            IF route_regex.err # "None" THEN route_regex
            ELSE IF openapi_path.err # "None" THEN openapi_path
            ELSE IF /\ compression # <<>>
                    /\ compression \notin {Gzip, Zlib, Deflate}
                 THEN Raise("ValueError")
            ELSE Ok([endpoint |-> endpoint,
                     path |-> path,
                     route_regex |-> route_regex.val,
                     openapi_path |-> openapi_path.val,
                     methods |-> MethodsOrGet(methods),
                     cors |-> cors,
                     token |-> token,
                     compression |-> compression,
                     b64encode |-> b64encode,
                     ttl |-> ttl,
                     cache_control |-> cache_control])
    IN Entry(PathToRegex(path), PathToOpenapi(path))

\* x in xs, for a list xs
InList(x, xs) == \E i \in 1..Len(xs) : xs[i] = x

-----------------------------------------------------------------------------
(* proxy.py: the route table of API.                                       *)

\* A bug _checkroute could have: the methods are not looked at.
CheckRoutePathOnly(rs, path, method) ==
    \E i \in 1..Len(rs) : path = rs[i].path

\* API._checkroute(path, method)
CheckRoute(rs, path, method) ==
    \E i \in 1..Len(rs) : InList(method, rs[i].methods) /\ path = rs[i].path

\* kwargs.pop(key, default), for the options a registration may leave out
KwargsPop(kwargs, key, default) ==
    IF key \in DOMAIN kwargs THEN kwargs[key] ELSE default

\* A bug _add_route could have: keywords left in kwargs are ignored.
NoLeftoverKwargs(kwargs) == FALSE

\* if kwargs: after the pops, kwargs holds the keywords that are no option
LeftoverKwargs(kwargs) == kwargs.unknown

\* A bug _add_route could have: the table is rebuilt before the checks, and
\* a registration that raises leaves it empty.
RaisedEmptied(rs, err) == [err |-> err, routes |-> <<>>]

\* _add_route raises err: self.routes.append was not reached
Raised(rs, err) == [err |-> err, routes |-> rs]

\* API._add_route(path, endpoint, **kwargs): the outcome, with the route
\* table it leaves. kwargs holds "methods" when has_methods, the option
\* payload_compression_method, an unrecognised keyword when unknown, and
\* may hold cors, token, binary_b64encode, ttl and cache_control.
AddRouteTo(rs, path, endpoint, kwargs) ==
    LET Appended(route) ==
            IF route.err # "None" THEN Raised(rs, route.err)
            ELSE [err |-> "None", routes |-> Append(rs, route.val)]
        Add(methods) ==
            IF LeftoverKwargs(kwargs) THEN Raised(rs, "TypeError")
            ELSE IF \E i \in 1..Len(methods) : CheckRoute(rs, path, methods[i])
                 THEN Raised(rs, "ValueError")
            ELSE Appended(RouteEntry(endpoint, path, methods,
                                     KwargsPop(kwargs, "cors", FALSE),
                                     KwargsPop(kwargs, "token", FALSE),
                                     kwargs.payload_compression_method,
                                     KwargsPop(kwargs, "binary_b64encode",
                                               FALSE),
                                     KwargsPop(kwargs, "ttl", 0),
                                     KwargsPop(kwargs, "cache_control",
                                               NoneVal)))
    IN Add(IF kwargs.has_methods THEN kwargs.methods ELSE <<"GET">>)

\* API._url_matching(url, method): the position in the table of the route
\* returned, 0 for None. The scan starts at position from.
RECURSIVE UrlMatchingFrom(_, _, _, _)
UrlMatchingFrom(rs, url, method, from) ==
    IF from > Len(rs) THEN 0
    ELSE IF /\ InList(method, rs[from].methods)
            /\ ReMatch(rs[from].route_regex, url).found
         THEN from
    ELSE UrlMatchingFrom(rs, url, method, from + 1)

UrlMatching(rs, url, method) == UrlMatchingFrom(rs, url, method, 1)

\* d[k] = v
DictSet(d, k, v) ==
    IF k \in DictKeys(d)
    THEN [i \in 1..Len(d) |-> IF d[i][1] = k THEN <<k, v>> ELSE d[i]]
    ELSE Append(d, <<k, v>>)

\* dict(zip(names, args))
RECURSIVE DictZip(_, _)
DictZip(names, args) ==
    IF names = <<>> \/ args = <<>> THEN <<>>
    ELSE LET n == IF Len(names) < Len(args) THEN Len(names) ELSE Len(args)
         IN DictSet(DictZip(SubSeq(names, 1, n - 1), SubSeq(args, 1, n - 1)),
                    names[n], args[n])

\* The names list of _get_matching_args:
\* param_pattern.match(arg).groupdict()["name"] for every placeholder
RECURSIVE ParamNames(_)
ParamNames(route_args) ==
    LET Names(m, rest) ==
            IF ~m.found THEN Raise("AttributeError")
            ELSE IF rest.err # "None" THEN rest
            ELSE Ok(<<m.name>> \o rest.val)
    IN IF route_args = <<>> THEN Ok(<<>>)
       ELSE Names(ParamPattern(Head(route_args)),
                  ParamNames(Tail(route_args)))

\* A bug _get_matching_args could have: the captures past the last
\* placeholder are dropped, as zip drops them.
RECURSIVE ConvertArgsZipped(_, _, _)
ConvertArgsZipped(url_args, route_args, id) ==
    LET Args(v, rest) ==
            IF url_args[id] = route_args[id] THEN rest
            ELSE IF v.err # "None" THEN v
            ELSE IF rest.err # "None" THEN rest
            ELSE Ok(<<v.val>> \o rest.val)
    IN IF id > Len(url_args) \/ id > Len(route_args) THEN Ok(<<>>)
       ELSE Args(Converters(url_args[id], route_args[id]),
                 ConvertArgsZipped(url_args, route_args, id + 1))

\* The args list of _get_matching_args, from the capture at position id on:
\* the conversion of every capture that differs from the placeholder at
\* its position. route_args[id] past the end raises IndexError.
RECURSIVE ConvertArgs(_, _, _)
ConvertArgs(url_args, route_args, id) ==
    LET Args(v, rest) ==
            IF url_args[id] = route_args[id] THEN rest
            ELSE IF v.err # "None" THEN v
            ELSE IF rest.err # "None" THEN rest
            ELSE Ok(<<v.val>> \o rest.val)
    IN IF id > Len(url_args) THEN Ok(<<>>)
       ELSE IF id > Len(route_args) THEN Raise("IndexError")
       ELSE Args(Converters(url_args[id], route_args[id]),
                 ConvertArgs(url_args, route_args, id + 1))

\* API._get_matching_args(route, url)
GetMatchingArgs(route, url) ==
    LET Zip(names, args) ==
            IF names.err # "None" THEN names
            ELSE IF args.err # "None" THEN args
            ELSE Ok(DictZip(names.val, args.val))
        Args(route_args, m) ==
            IF ~m.found THEN Raise("AttributeError")
            ELSE Zip(ParamNames(route_args),
                     ConvertArgs(m.groups, route_args, 1))
    IN Args(ParamsExpr(route.path), ReMatch(route.route_regex, url))

-----------------------------------------------------------------------------
(* patterns.py: proxy_pattern, and gateway.py.                             *)

\* '.execute-api.'
ExecuteApiMarker ==
    <<".", "e", "x", "e", "c", "u", "t", "e", "-", "a", "p", "i", ".">>
\* '.amazonaws.com'
AmazonawsMarker ==
    <<".", "a", "m", "a", "z", "o", "n", "a", "w", "s", ".", "c", "o", "m">>
\* '$default'
DefaultStage == <<"$", "d", "e", "f", "a", "u", "l", "t">>
\* '/'
Slash == <<"/">>

\* Where '$' can stand in s: at the end, or before a newline that ends s.
\* proxy_pattern ends in '}$', so the '}' is the last character of s or the
\* one before a final newline.
DollarEnd(s) == IF Len(s) > 0 /\ s[Len(s)] = NL THEN Len(s) - 1 ELSE Len(s)

\* The start positions at which r"/{(?P<name>.+)\+}$" matches in s:
\* '/{', one or more characters other than newline, '+}', the end.
ProxyStarts(s) ==
    LET e == DollarEnd(s)
    IN {i \in 1..Len(s) :
            /\ i + 4 <= e
            /\ s[i] = "/" /\ s[i + 1] = "{"
            /\ s[e - 1] = "+" /\ s[e] = "}"
            /\ \A k \in (i + 2)..(e - 2) : s[k] # NL}

\* proxy_pattern.search(s): the leftmost match and its group "name", or no
\* match (None).
ProxySearch(s) ==
    IF ProxyStarts(s) = {} THEN [found |-> FALSE]
    ELSE LET i == CHOOSE k \in ProxyStarts(s) :
                      \A j \in ProxyStarts(s) : k <= j
             e == DollarEnd(s)
         IN [found |-> TRUE, start |-> i, end |-> e,
             name |-> SubSeq(s, i + 2, e - 2)]

\* proxy_pattern.sub("", s): the match is removed, the rest is kept.
ProxySub(s) ==
    LET m == ProxySearch(s)
    IN IF ~m.found THEN s
       ELSE SubSeq(s, 1, m.start - 1) \o Drop(s, m.end + 1)

\* event.get(key, default)
EventGet(v, default) == IF v = Absent THEN default ELSE v

\* A bug ForwardedHost could have: the host header is preferred to the
\* forwarded one.
HostBeforeForwarded(headers) ==
    EventGet(headers.host, EventGet(headers.xfh, <<>>))

\* header.get("x-forwarded-host", header.get("host", ""))
ForwardedHost(headers) == EventGet(headers.xfh, EventGet(headers.host, <<>>))

\* _get_apigw_stage(event)
GetApigwStage(event) ==
    LET host == ForwardedHost(event.headers)
    IN IF Contains(host, ExecuteApiMarker) /\ Contains(host, AmazonawsMarker)
       THEN IF ~event.requestContext.present THEN Raise("KeyError")
            ELSE Ok(EventGet(event.requestContext.stage, <<>>))
       ELSE Ok(<<>>)

\* _get_request_path(event)
GetRequestPath(event) ==
    LET resource_proxy == ProxySearch(EventGet(event.resource, Slash))
    IN IF resource_proxy.found
       THEN IF event.pathParameters.kind = "absent" THEN Raise("KeyError")
            ELSE IF event.pathParameters.kind = "None"
                 THEN Raise("AttributeError")
            ELSE Ok(Slash \o PyStr(DictGet(event.pathParameters.dict,
                                           resource_proxy.name)))
       ELSE Ok(EventGet(event.path, NoneVal))

\* The api_prefix of ApigwPath.__init__
ApiPrefix(event) == RStrip(ProxySub(EventGet(event.resource, <<>>)), "/")

\* A bug PathMapping could have: the mapping is computed although a stage
\* was detected.
PathMappingAlways(event, apigw_stage, path, api_prefix) ==
    IF Truthy(path)
    THEN StrReplace(EventGet(event.path, <<>>), api_prefix \o path, <<>>)
    ELSE <<>>

\* The path_mapping of ApigwPath.__init__
PathMapping(event, apigw_stage, path, api_prefix) ==
    IF ~Truthy(apigw_stage) /\ Truthy(path)
    THEN StrReplace(EventGet(event.path, <<>>), api_prefix \o path, <<>>)
    ELSE <<>>

\* A bug Prefix could have: the $default stage is put in the prefix like any
\* other stage.
PrefixNoDefault(p) ==
    IF Truthy(p.apigw_stage)
    THEN Slash \o p.apigw_stage \o p.api_prefix
    ELSE IF Truthy(p.path_mapping) THEN p.path_mapping \o p.api_prefix
    ELSE p.api_prefix

\* ApigwPath.prefix
Prefix(p) ==
    IF Truthy(p.apigw_stage) /\ p.apigw_stage # DefaultStage
    THEN Slash \o p.apigw_stage \o p.api_prefix
    ELSE IF Truthy(p.path_mapping) THEN p.path_mapping \o p.api_prefix
    ELSE p.api_prefix

\* A bug the constructor could have: the raw path is popped from the event.
EventWithoutPath(event) == [event EXCEPT !.path = Absent]

\* The event after ApigwPath(event): the constructor and the functions it
\* calls only read the event (get and subscript).
EventAfterApigwPath(event) == event

\* ApigwPath(event): the PathInfo object, or the exception of its constructor
ApigwPath(event) ==
    LET stage == GetApigwStage(event)
        path == GetRequestPath(event)
        api_prefix == ApiPrefix(event)
    IN IF stage.err # "None" THEN stage
       ELSE IF path.err # "None" THEN path
       ELSE Ok([version |-> EventGet(event.version, NoneVal),
                apigw_stage |-> stage.val,
                path |-> path.val,
                api_prefix |-> api_prefix,
                path_mapping |-> PathMapping(event, stage.val, path.val,
                                             api_prefix)])

-----------------------------------------------------------------------------
(* The events the normaliser is applied to.                                *)

\* The longest raw path of an event, in segments.
MaxEventSegs == 3

\* 'a.execute-api.r.amazonaws.com'
HostManaged ==
    <<"a", ".", "e", "x", "e", "c", "u", "t", "e", "-", "a", "p", "i", ".",
      "r", ".", "a", "m", "a", "z", "o", "n", "a", "w", "s", ".", "c", "o",
      "m">>
\* 'a.io'
HostCustom == <<"a", ".", "i", "o">>
\* 'prod'
StageProd == <<"p", "r", "o", "d">>
\* '/{proxy+}'
ResProxy == <<"/", "{", "p", "r", "o", "x", "y", "+", "}">>
\* '/api/{proxy+}'
ResApiProxy ==
    <<"/", "a", "p", "i", "/", "{", "p", "r", "o", "x", "y", "+", "}">>
\* '/api/'
ResApiSlash == <<"/", "a", "p", "i", "/">>
\* '/api/{id}'
ResApiId == <<"/", "a", "p", "i", "/", "{", "i", "d", "}">>
\* '/{id}/{proxy+}'
ResIdProxy ==
    <<"/", "{", "i", "d", "}", "/", "{", "p", "r", "o", "x", "y", "+", "}">>
\* 'proxy'
KeyProxy == <<"p", "r", "o", "x", "y">>
\* 'id'
KeyId == <<"i", "d">>
\* 'x'
ValX == <<"x">>
\* '1.0'
Version1 == <<"1", ".", "0">>

EventSegs == {<<"/", "x">>, <<"/", "a", "p", "i">>, <<"/", "m">>}

\* The concatenations of n segments
RECURSIVE SegPaths(_)
SegPaths(n) ==
    IF n = 0 THEN {<<>>}
    ELSE {p \o s : p \in SegPaths(n - 1), s \in EventSegs}

EventPaths == UNION {SegPaths(n) : n \in 1..MaxEventSegs}

EventHeaders ==
    {[xfh |-> Absent, host |-> Absent],
     [xfh |-> Absent, host |-> HostCustom],
     [xfh |-> Absent, host |-> HostManaged],
     [xfh |-> HostManaged, host |-> HostCustom],
     [xfh |-> HostCustom, host |-> HostManaged]}

\* event["requestContext"]: absent, or a dict whose "stage" may be absent
EventContexts ==
    {[present |-> FALSE, stage |-> Absent],
     [present |-> TRUE, stage |-> Absent],
     [present |-> TRUE, stage |-> DefaultStage],
     [present |-> TRUE, stage |-> StageProd]}

EventResources ==
    {Absent, Slash, ResProxy, ResApiProxy, ResApiSlash, ResApiId, ResIdProxy}

\* event["pathParameters"]: absent, None, or a dict
EventPathParameters ==
    {[kind |-> "absent", dict |-> <<>>],
     [kind |-> "None", dict |-> <<>>],
     [kind |-> "dict", dict |-> <<>>],
     [kind |-> "dict", dict |-> <<<<KeyProxy, ValX>>>>],
     [kind |-> "dict", dict |-> <<<<KeyId, <<"m">>>>, <<KeyProxy, ValX>>>>]}

Events ==
    [headers : EventHeaders,
     requestContext : EventContexts,
     resource : EventResources,
     pathParameters : EventPathParameters,
     path : EventPaths \cup {Absent},
     version : {Absent, Version1}]

-----------------------------------------------------------------------------
(* Normalisation of one event: the event is drawn, then ApigwPath(event)   *)
(* is constructed and its prefix property read, once or twice, or one of   *)
(* the two functions the constructor calls is applied to the event.        *)

InitGateway ==
    /\ routes = <<>>
    /\ pre = <<>>
    /\ op = "event"
    /\ arg \in Events
    /\ res = NoneVal
    /\ NoDispatch

Normalize ==
    /\ op = "event"
    /\ op' = "ApigwPath"
    /\ LET p == ApigwPath(arg)
       IN res' = IF p.err = "None"
                 THEN [err |-> "None", val |-> p.val, prefix |-> Prefix(p.val)]
                 ELSE p
    /\ UNCHANGED <<routes, pre, arg>>
    /\ UNCHANGED dvars

\* _get_apigw_stage(event)
GetStage ==
    /\ op = "event"
    /\ op' = "_get_apigw_stage"
    /\ res' = GetApigwStage(arg)
    /\ UNCHANGED <<routes, pre, arg>>
    /\ UNCHANGED dvars

\* _get_request_path(event)
GetPath ==
    /\ op = "event"
    /\ op' = "_get_request_path"
    /\ res' = GetRequestPath(arg)
    /\ UNCHANGED <<routes, pre, arg>>
    /\ UNCHANGED dvars

\* ApigwPath(event) and its prefix, then ApigwPath(event) and its prefix
\* again on the event as the first construction left it.
NormalizeTwice ==
    /\ op = "event"
    /\ op' = "ApigwPath twice"
    /\ LET Info(p) ==
               IF p.err = "None"
               THEN [err |-> "None", val |-> p.val, prefix |-> Prefix(p.val)]
               ELSE p
           Twice(event) ==
               [first |-> Info(ApigwPath(arg)),
                second |-> Info(ApigwPath(event)),
                event |-> EventAfterApigwPath(event)]
       IN res' = Twice(EventAfterApigwPath(arg))
    /\ UNCHANGED <<routes, pre, arg>>
    /\ UNCHANGED dvars

NextGateway == Normalize \/ GetStage \/ GetPath \/ NormalizeTwice

SpecGateway == InitGateway /\ [][NextGateway]_vars

-----------------------------------------------------------------------------
(* Properties of the path normaliser.                                      *)

\* An ApigwPath object was constructed from the event arg.
Normalized == op = "ApigwPath" /\ res.err = "None"

\* C7: the mount prefix of a normalised event is '/' + stage + api-prefix
\* when the stage is non-empty and not $default, else path-mapping +
\* api-prefix when the path-mapping is non-empty, else the api-prefix; with
\* the stage $default it is the api-prefix alone.
PrefixThreeWayRule ==
    Normalized =>
        LET p == res.val
            staged == p.apigw_stage # <<>> /\ p.apigw_stage # DefaultStage
        IN /\ staged => res.prefix = Slash \o p.apigw_stage \o p.api_prefix
           /\ (~staged /\ p.path_mapping # <<>>) =>
                  res.prefix = p.path_mapping \o p.api_prefix
           /\ (~staged /\ p.path_mapping = <<>>) => res.prefix = p.api_prefix
           /\ p.apigw_stage = DefaultStage => res.prefix = p.api_prefix

\* A managed-domain event with the stage $default and a non-empty
\* api-prefix was normalised.
PrefixDefaultStageWitness ==
    /\ Normalized
    /\ res.val.apigw_stage = DefaultStage
    /\ res.val.api_prefix # <<>>
    /\ res.prefix = res.val.api_prefix

\* C8: a non-empty stage and a non-empty path-mapping never hold together.
StageExcludesPathMapping ==
    Normalized => (res.val.apigw_stage # <<>> => res.val.path_mapping = <<>>)

\* A stage was detected for an event whose raw path differs from
\* api-prefix + logical path, so that a mapping would have been left over.
StageWithLeftoverWitness ==
    /\ Normalized
    /\ res.val.apigw_stage # <<>>
    /\ arg.path # Absent
    /\ Truthy(res.val.path)
    /\ StrReplace(arg.path, res.val.api_prefix \o res.val.path, <<>>) # <<>>
    /\ res.val.path_mapping = <<>>

\* C9: without a stage and with a logical path, the path-mapping is the raw
\* path with only the first occurrence of api-prefix + logical-path removed.
PathMappingRemovesFirstOccurrenceOnly ==
    (Normalized /\ res.val.apigw_stage = <<>> /\ Truthy(res.val.path)) =>
        res.val.path_mapping =
            StrReplaceFirst(EventGet(arg.path, <<>>),
                            res.val.api_prefix \o res.val.path, <<>>)

\* The text of s before its first "/{", all of s when there is none.
BeforeFirstPlaceholder(s) ==
    IF Find(s, <<"/", "{">>, 1) = 0 THEN s
    ELSE SubSeq(s, 1, Find(s, <<"/", "{">>, 1) - 1)

\* The resource template ends in a greedy placeholder: "/{" name "+}".
EndsInGreedyPlaceholder(s) ==
    \E i \in 1..Len(s) :
        /\ i + 4 <= Len(s)
        /\ s[i] = "/" /\ s[i + 1] = "{"
        /\ s[Len(s) - 1] = "+" /\ s[Len(s)] = "}"
        /\ \A k \in (i + 2)..(Len(s) - 2) : s[k] \notin {"/", "{", "}"}

\* C10: the api-prefix is the resource template without its trailing greedy
\* placeholder and trailing slash, and it is empty when the template has
\* no fixed prefix in front of a greedy placeholder: the resource is
\* absent, '/', only a greedy placeholder, or has no greedy placeholder.
ApiPrefixIsFixedPrefixOrEmpty ==
    Normalized =>
        LET r == EventGet(arg.resource, <<>>)
        IN res.val.api_prefix =
               IF EndsInGreedyPlaceholder(r)
               THEN RStripOnce(BeforeFirstPlaceholder(r), "/")
               ELSE <<>>

\* The name of the greedy placeholder that ends the resource template s
GreedyName(s) ==
    LET i == CHOOSE k \in 1..Len(s) :
                 /\ StartsAt(s, <<"/", "{">>, k)
                 /\ \A j \in (k + 2)..(Len(s) - 2) : s[j] \notin {"/", "{", "}"}
    IN SubSeq(s, i + 2, Len(s) - 2)

\* C11: the logical path is '/' + the path parameter resolved for the
\* greedy placeholder that ends the resource template, the raw path field
\* when the template has no such placeholder, and None only when there is
\* neither a resolved parameter nor a raw path.
LogicalPathResolution ==
    (op = "_get_request_path" /\ res.err = "None") =>
        LET r == EventGet(arg.resource, <<>>)
            greedy == EndsInGreedyPlaceholder(r)
            resolved == /\ greedy
                        /\ arg.pathParameters.kind = "dict"
                        /\ GreedyName(r) \in DictKeys(arg.pathParameters.dict)
        IN /\ resolved =>
                  res.val = Slash \o DictGet(arg.pathParameters.dict,
                                             GreedyName(r))
           /\ ~greedy => res.val = EventGet(arg.path, NoneVal)
           /\ res.val = NoneVal => (~resolved /\ arg.path = Absent)

\* C12: the stage is the stage name of the request context when the
\* forwarded-host header, or the host header when there is no forwarded
\* one, holds both managed-domain markers, and the empty string for every
\* other host and without a host, whatever the request context names.
StageDetection ==
    op = "_get_apigw_stage" =>
        LET h == arg.headers
            host == IF h.xfh # Absent THEN h.xfh
                    ELSE IF h.host # Absent THEN h.host ELSE <<>>
            managed == /\ Contains(host, ExecuteApiMarker)
                       /\ Contains(host, AmazonawsMarker)
        IN /\ (managed /\ arg.requestContext.present) =>
                  res = Ok(IF arg.requestContext.stage = Absent THEN <<>>
                           ELSE arg.requestContext.stage)
           /\ ~managed => res = Ok(<<>>)

\* The stage was asked of an event whose forwarded host is a custom domain
\* and whose host header is a managed one, with a stage in its context.
StageOfForwardedCustomHostWitness ==
    /\ op = "_get_apigw_stage"
    /\ arg.headers.xfh = HostCustom
    /\ arg.headers.host = HostManaged
    /\ arg.requestContext.stage = StageProd
    /\ res = Ok(<<>>)

-----------------------------------------------------------------------------
(* The route table: registrations, then a request.                         *)
(*                                                                         *)
(* The API is constructed with add_docs=False, so that its table starts    *)
(* empty (setup_docs registers its routes through _add_route like any      *)
(* other caller). A registration or the matching of a request runs, its    *)
(* outcome is observed in op, arg and res, and the program goes on.        *)

\* The most routes registered.
MaxRoutes == 2

\* '/<a>/<int:n>'
TplBareInt == <<"/", "<", "a", ">", "/", "<", "i", "n", "t", ":", "n", ">">>
\* '/<string:s>/<float:x>'
TplStringFloat ==
    <<"/", "<", "s", "t", "r", "i", "n", "g", ":", "s", ">", "/", "<", "f",
      "l", "o", "a", "t", ":", "x", ">">>
\* '/<uuid:u>'
TplUuid == <<"/", "<", "u", "u", "i", "d", ":", "u", ">">>
\* '/<regex(u(\\d+)?):a>'
TplRegexGroup ==
    <<"/", "<", "r", "e", "g", "e", "x", "(", "u", "(", "\\", "d", "+", ")",
      "?", ")", ":", "a", ">">>
\* '/<regex(.+):a>/<int:b>'
TplRegexAny ==
    <<"/", "<", "r", "e", "g", "e", "x", "(", ".", "+", ")", ":", "a", ">",
      "/", "<", "i", "n", "t", ":", "b", ">">>

Templates ==
    {TplBareInt, TplStringFloat, TplUuid, TplRegexGroup, TplRegexAny}

\* 'u'
ValWord == <<"u">>
\* '12'
ValInt == <<"1", "2">>
\* '1.5'
ValFloat == <<"1", ".", "5">>
\* '1x5'
ValFloatLax == <<"1", "x", "5">>
\* '0a1b2c3d-0000-1111-2222-0123456789ab'
ValUuid ==
    <<"0", "a", "1", "b", "2", "c", "3", "d", "-", "0", "0", "0", "0", "-",
      "1", "1", "1", "1", "-", "2", "2", "2", "2", "-", "0", "1", "2", "3",
      "4", "5", "6", "7", "8", "9", "a", "b">>
\* '<regex(.+):a>'
ValPlaceholder ==
    <<"<", "r", "e", "g", "e", "x", "(", ".", "+", ")", ":", "a", ">">>
\* '12\n'
ValIntNewline == <<"1", "2", NL>>
\* 'nope'
Nope == <<"n", "o", "p", "e">>

\* The first and the second path segments of the requests
Heads == {ValWord, ValInt, ValPlaceholder}

Tails == {ValWord, ValInt, ValFloat, ValFloatLax, ValIntNewline}

\* The request paths: '/v' and '/v/w'
Urls ==
    {Slash \o v : v \in Heads \cup {ValUuid}}
        \cup {Slash \o v \o Slash \o w : v \in Heads, w \in Tails}

HttpMethods == {"GET", "POST"}

\* The keyword arguments of a registration
Kwargs ==
    [has_methods : {TRUE},
     methods : {<<>>, <<"POST">>, <<"GET", "POST">>},
     unknown : BOOLEAN,
     payload_compression_method : {<<>>, Nope}]
    \cup
    [has_methods : {FALSE},
     methods : {<<>>},
     unknown : BOOLEAN,
     payload_compression_method : {<<>>, Nope}]

Init ==
    /\ routes = <<>>
    /\ pre = <<>>
    /\ op = "idle"
    /\ arg = NoneVal
    /\ res = NoneVal
    /\ NoDispatch

\* app._add_route(path, endpoint, **kwargs), also through app.route(path,
\* **kwargs) and app.get, app.post, ..., which set kwargs["methods"]
AddRoute(path, kwargs) ==
    /\ op = "idle"
    /\ Len(routes) < MaxRoutes
    /\ \E out \in {AddRouteTo(routes, path, "view", kwargs)} :
           /\ routes' = out.routes
           /\ res' = [err |-> out.err]
    /\ pre' = routes
    /\ op' = "add"
    /\ arg' = [path |-> path, kwargs |-> kwargs]
    /\ UNCHANGED dvars

\* The matching of __call__: route_entry = self._url_matching(path,
\* http_method) and, when a route is found,
\* self._get_matching_args(route_entry, path)
MatchRequest(url, method) ==
    /\ op = "idle"
    /\ \E route_entry \in {UrlMatching(routes, url, method)} :
           res' = [route |-> route_entry,
                   args |-> IF route_entry = 0 THEN Ok(<<>>)
                            ELSE GetMatchingArgs(routes[route_entry], url)]
    /\ op' = "match"
    /\ arg' = [url |-> url, method |-> method]
    /\ pre' = routes
    /\ UNCHANGED routes
    /\ UNCHANGED dvars

\* The call has returned or raised, and the caller goes on.
Continue ==
    /\ op \in {"add", "match"}
    /\ op' = "idle"
    /\ arg' = NoneVal
    /\ res' = NoneVal
    /\ pre' = routes
    /\ UNCHANGED routes
    /\ UNCHANGED dvars

Next ==
    \/ \E path \in Templates, kwargs \in Kwargs : AddRoute(path, kwargs)
    \/ \E url \in Urls, method \in HttpMethods : MatchRequest(url, method)
    \/ Continue

Spec == Init /\ [][Next]_vars

-----------------------------------------------------------------------------
(* Properties of the route table.                                          *)

\* The expression matches all of the text: re.fullmatch
FullMatch(expr, s) == ReMatch(SeqOf(<<expr, End>>), s).found

\* The positions of the routes of rs that qualify for a request
Qualifying(rs, url, method) ==
    {i \in 1..Len(rs) :
        InList(method, rs[i].methods) /\ FullMatch(rs[i].route_regex, url)}

Earliest(S) == CHOOSE i \in S : \A j \in S : i <= j

\* C1: the lookup returns the earliest-registered route whose method set
\* contains the method and whose match expression fully matches the path,
\* and returns none only when no route qualifies.
LookupReturnsEarliestFullMatch ==
    op = "match" =>
        LET q == Qualifying(pre, arg.url, arg.method)
        IN res.route = IF q = {} THEN 0 ELSE Earliest(q)

\* The methods a registration asks for: kwargs.pop("methods", ["GET"]),
\* and GET for an empty list
MethodsAsked(kwargs) ==
    MethodsOrGet(IF kwargs.has_methods THEN kwargs.methods ELSE <<"GET">>)

Overlap(ms, ns) == \E i \in 1..Len(ms) : InList(ms[i], ns)

\* The routes of rs with the template path
SameTemplate(rs, path) == {i \in 1..Len(rs) : rs[i].path = path}

\* C2: a registration, of recognised options, whose template is that of a
\* registered route and whose methods overlap with that route's fails with
\* ValueError.
DuplicateRegistrationFails ==
    (/\ op = "add"
     /\ ~arg.kwargs.unknown
     /\ \E i \in SameTemplate(pre, arg.path) :
            Overlap(MethodsAsked(arg.kwargs), pre[i].methods))
        => res.err = "ValueError"

\* C3: no two routes of the table have the same template and a method in
\* common.
NoDuplicateRoutes ==
    \A i, j \in 1..Len(routes) :
        (i # j /\ routes[i].path = routes[j].path)
            => ~Overlap(routes[i].methods, routes[j].methods)

\* A registration of valid options of a template that is in the table,
\* with methods disjoint from those of every route of that template
DisjointRegistration ==
    /\ op = "add"
    /\ ~arg.kwargs.unknown
    /\ arg.kwargs.payload_compression_method \in {<<>>, Gzip, Zlib, Deflate}
    /\ SameTemplate(pre, arg.path) # {}
    /\ \A i \in SameTemplate(pre, arg.path) :
           ~Overlap(MethodsAsked(arg.kwargs), pre[i].methods)

\* C4: registering a template that is in the table with methods disjoint
\* from those of every route of that template succeeds and appends a route.
DisjointRegistrationSucceeds ==
    DisjointRegistration =>
        /\ res.err = "None"
        /\ Len(routes) = Len(pre) + 1
        /\ SubSeq(routes, 1, Len(pre)) = pre
        /\ routes[Len(routes)].path = arg.path
        /\ routes[Len(routes)].methods = MethodsAsked(arg.kwargs)

\* A POST route was added to a table holding its template for GET.
DisjointRegistrationWitness ==
    /\ DisjointRegistration
    /\ MethodsAsked(arg.kwargs) = <<"POST">>
    /\ Len(routes) = 2
    /\ routes[1].methods = <<"GET">>

-----------------------------------------------------------------------------
(* Properties of the arguments taken from a matched path.                  *)

\* 'string' 'uuid' 'regex'
StringType == <<"s", "t", "r", "i", "n", "g">>
UuidType == <<"u", "u", "i", "d">>
RegexType == <<"r", "e", "g", "e", "x">>

\* The form of the values of a placeholder: word characters, digits,
\* digits '.' digits with a sign, a lower-case 8-4-4-4-12 hexadecimal
\* identifier, or the inline pattern.
FormOf(path_arg) ==
    LET m == ParamPattern(path_arg)
    IN CASE m.type = IntType -> IntGroup.x
         [] m.type = FloatType ->
                SeqOf(<<Opt(Cls({"+", "-"})), Plus(Cls(Digits)), Chr("."),
                        Plus(Cls(Digits))>>)
         [] m.type = UuidType -> UuidGroup.x
         [] m.type = RegexType -> ParsePattern(m.pattern)
         [] OTHER -> WordGroup.x

\* The type of the value a placeholder declares
DeclaredType(path_arg) ==
    LET m == ParamPattern(path_arg)
    IN CASE m.type = IntType -> "int"
         [] m.type = FloatType -> "float"
         [] OTHER -> "str"

\* The path segments of the requests
Segments == Heads \cup Tails \cup {ValUuid}

\* Every value is of the form of the placeholder at its position.
ValidValues(route_args, values) ==
    /\ Len(values) = Len(route_args)
    /\ \A k \in 1..Len(route_args) :
           FullMatch(FormOf(route_args[k]), values[k])

\* The template with its placeholders replaced, in order, by the values
RECURSIVE Build(_, _)
Build(path, values) ==
    LET i == Find(path, <<"<">>, 1)
        j == IF i = 0 THEN 0 ELSE Find(path, <<">">>, i + 1)
    IN IF j = 0 \/ values = <<>> THEN path
       ELSE SubSeq(path, 1, i - 1) \o Head(values)
                \o Build(Drop(path, j + 1), Tail(values))

\* The request asks the first route of the table, by a method of that
\* route, for a path built from its template and valid values.
BuiltFrom(values) ==
    /\ op = "match"
    /\ pre # <<>>
    /\ InList(arg.method, pre[1].methods)
    /\ arg.url = Build(pre[1].path, values)
    /\ ValidValues(ParamsExpr(pre[1].path), values)

\* The lists of one path segment for each placeholder of the template, of
\* the segments that occur in url: a path built from values holds them.
ValueLists(path, url) ==
    [1..Len(ParamsExpr(path)) -> {v \in Segments : Contains(url, v)}]

\* The route is found and its arguments are one value for each
\* placeholder, of the declared type, in declaration order, keyed by the
\* placeholder names.
ExtractedAsDeclared ==
    LET route_args == ParamsExpr(pre[1].path)
    IN /\ res.route = 1
       /\ res.args.err = "None"
       /\ Len(res.args.val) = Len(route_args)
       /\ \A k \in 1..Len(route_args) :
              /\ k <= Len(res.args.val)
              /\ res.args.val[k][1] = ParamPattern(route_args[k]).name
              /\ res.args.val[k][2].ty = DeclaredType(route_args[k])

NoInnerGroup(path) ==
    \A k \in 1..Len(ParamsExpr(path)) :
        LET m == ParamPattern(ParamsExpr(path)[k])
        IN m.pattern # NoneVal => ~Contains(m.pattern, <<"(">>)

\* No value is the text of the placeholder it replaces.
NoValueIsItsPlaceholder(path, values) ==
    \A k \in 1..Len(values) : values[k] # ParamsExpr(path)[k]

Captures == ReMatch(pre[res.route].route_regex, arg.url).groups

\* The placeholders of the route a request was matched to
Matched == ParamsExpr(pre[res.route].path)

\* The capture for placeholder k is of its form and its conversion
\* succeeds.
CaptureInClass(captures, k) ==
    /\ k <= Len(captures)
    /\ captures[k] # NoneVal
    /\ FullMatch(FormOf(Matched[k]), captures[k])
    /\ Converters(captures[k], Matched[k]).err = "None"

\* The placeholders of the matched route of the types
OfTypes(types) ==
    {k \in 1..Len(Matched) : ParamPattern(Matched[k]).type \in types}

\* C6, as stated: what a matched route captured for an int, float or uuid
\* placeholder is in the placeholder's class, and its conversion succeeds.
TypedCapturesInClass ==
    (op = "match" /\ res.route # 0) =>
        /\ \A captures \in {Captures} :
               \A k \in OfTypes({IntType, FloatType, UuidType}) :
                   CaptureInClass(captures, k)
        /\ res.args.err # "ValueError"

\* C6: what a matched route, whose inline patterns hold no group of their
\* own, captured for an int or uuid placeholder is in the placeholder's
\* class, and its conversion succeeds; a conversion fails only for a float
\* placeholder whose capture is outside its class.
IntAndUuidCapturesInClass ==
    (op = "match" /\ res.route # 0 /\ NoInnerGroup(pre[res.route].path)) =>
        \A captures \in {Captures} :
            /\ \A k \in OfTypes({IntType, UuidType}) :
                   CaptureInClass(captures, k)
            /\ res.args.err = "ValueError"
                   => \E k \in OfTypes({FloatType}) :
                          ~CaptureInClass(captures, k)

\* '/u/12' followed by a newline matched '/<a>/<int:n>', and '12' was
\* captured for n.
IntCaptureWitness ==
    /\ op = "match"
    /\ res.route # 0
    /\ pre[res.route].path = TplBareInt
    /\ arg.url = Slash \o ValWord \o Slash \o ValIntNewline
    /\ Captures[2] = ValInt
    /\ res.args.err = "None"

-----------------------------------------------------------------------------
(* proxy.py: the dispatcher API.__call__ and what it calls.                *)

\* 'x-forwarded-host'
XForwardedHostKey ==
    <<"x", "-", "f", "o", "r", "w", "a", "r", "d", "e", "d", "-", "h",
      "o", "s", "t">>
\* 'host'
HostKey == <<"h", "o", "s", "t">>
\* 'accept-encoding'
AcceptEncodingKey ==
    <<"a", "c", "c", "e", "p", "t", "-", "e", "n", "c", "o", "d", "i",
      "n", "g">>
\* 'access_token'
AccessTokenKey ==
    <<"a", "c", "c", "e", "s", "s", "_", "t", "o", "k", "e", "n">>
\* 'body'
BodyKey == <<"b", "o", "d", "y">>

\* key.lower()
StrLower(s) ==
    LET U == <<"A", "B", "C", "D", "E", "F", "G", "H", "I", "J", "K", "L",
               "M", "N", "O", "P", "Q", "R", "S", "T", "U", "V", "W", "X",
               "Y", "Z">>
        L == <<"a", "b", "c", "d", "e", "f", "g", "h", "i", "j", "k", "l",
               "m", "n", "o", "p", "q", "r", "s", "t", "u", "v", "w", "x",
               "y", "z">>
    IN [i \in 1..Len(s) |->
            IF s[i] \in Upper THEN L[CHOOSE k \in 1..26 : U[k] = s[i]]
            ELSE s[i]]

\* dict((key.lower(), value) for key, value in headers.items())
RECURSIVE LowerKeys(_)
LowerKeys(headers) ==
    IF headers = <<>> THEN <<>>
    ELSE DictSet(LowerKeys(SubSeq(headers, 1, Len(headers) - 1)),
                 StrLower(headers[Len(headers)][1]),
                 headers[Len(headers)][2])

\* d.get(k, default)
DictGetOr(d, k, default) == IF k \in DictKeys(d) THEN DictGet(d, k) ELSE default

\* The dict d of texts as typed values: each value is a str.
StrValues(d) == [i \in 1..Len(d) |-> <<d[i][1], StrVal(d[i][2])>>]

\* A bug pop could have: the key is read and left in the dict.
DictPeek(d, k) == d

\* d.pop(k, default): the dict that is left
DictPop(d, k) == SelectSeq(d, LAMBDA kv : kv[1] # k)

\* A bug update could have: a key that d holds keeps its value.
RECURSIVE DictUpdateNew(_, _)
DictUpdateNew(d, e) ==
    IF e = <<>> THEN d
    ELSE DictUpdateNew(IF e[1][1] \in DictKeys(d) THEN d
                       ELSE Append(d, e[1]), Tail(e))

\* d.update(e)
RECURSIVE DictUpdate(_, _)
DictUpdate(d, e) ==
    IF e = <<>> THEN d
    ELSE DictUpdate(DictSet(d, e[1][1], e[1][2]), Tail(e))

\* A dict-valued field of an event: a dict, None, or absent from the event
AsDict(d) == [kind |-> "dict", dict |-> d]
NoDict == [kind |-> "None", dict |-> <<>>]
AbsentDict == [kind |-> "absent", dict |-> <<>>]

\* event.get(key, {}) or {}
DictOrEmpty(v) == IF v.kind = "dict" THEN v.dict ELSE <<>>

\* The headers of an event as _get_apigw_stage reads them: the values under
\* the keys "x-forwarded-host" and "host".
HeaderFields(headers) ==
    [xfh |-> DictGetOr(headers, XForwardedHostKey, Absent),
     host |-> DictGetOr(headers, HostKey, Absent)]

\* ApigwPath(self.event) for an event whose headers are a dict, None or
\* absent: header.get of None raises AttributeError.
ApigwPathOf(event) ==
    IF event.headers.kind = "None" THEN Raise("AttributeError")
    ELSE ApigwPath([event EXCEPT
                        !.headers = HeaderFields(DictOrEmpty(event.headers))])

\* base64.b64decode(body).decode() of a padded text of the base64 alphabet
\* that encodes ASCII characters (character 96 is written "backquote")
RECURSIVE B64Decode(_)
B64Decode(s) ==
    LET A ==
            <<"A", "B", "C", "D", "E", "F", "G", "H", "I", "J",
              "K", "L", "M", "N", "O", "P", "Q", "R", "S", "T",
              "U", "V", "W", "X", "Y", "Z", "a", "b", "c", "d",
              "e", "f", "g", "h", "i", "j", "k", "l", "m", "n",
              "o", "p", "q", "r", "s", "t", "u", "v", "w", "x",
              "y", "z", "0", "1", "2", "3", "4", "5", "6", "7",
              "8", "9", "+", "/">>
        Ascii ==
            <<" ", "!", "\"", "#", "$", "%", "&", "'", "(", ")",
              "*", "+", ",", "-", ".", "/", "0", "1", "2", "3",
              "4", "5", "6", "7", "8", "9", ":", ";", "<", "=",
              ">", "?", "@", "A", "B", "C", "D", "E", "F", "G",
              "H", "I", "J", "K", "L", "M", "N", "O", "P", "Q",
              "R", "S", "T", "U", "V", "W", "X", "Y", "Z", "[",
              "\\", "]", "^", "_", "backquote", "a", "b", "c", "d", "e",
              "f", "g", "h", "i", "j", "k", "l", "m", "n", "o",
              "p", "q", "r", "s", "t", "u", "v", "w", "x", "y",
              "z", "{", "|", "}", "~">>
        V(c) == IF c = "=" THEN 0 ELSE (CHOOSE k \in 1..64 : A[k] = c) - 1
        N(q) == V(q[1]) * 262144 + V(q[2]) * 4096 + V(q[3]) * 64 + V(q[4])
        C(b) == Ascii[b - 31]
        Three(n) == <<C(n \div 65536), C((n \div 256) % 256), C(n % 256)>>
        Group(q, n) ==
            IF q[3] = "=" THEN <<C(n \div 65536)>>
            ELSE IF q[4] = "=" THEN <<C(n \div 65536), C((n \div 256) % 256)>>
            ELSE Three(n)
    IN IF s = <<>> THEN <<>>
       ELSE Group(SubSeq(s, 1, 4), N(SubSeq(s, 1, 4)))
                \o B64Decode(Drop(s, 5))

\* Response(status_code, content_type, body): the headers field is None
\* unless the handler gives one.
Response(status_code, content_type, body) ==
    [status_code |-> status_code, content_type |-> content_type,
     body |-> body, headers |-> NoDict]

\* StatusCode.<member>.value
StatusValue(status_code) ==
    CASE status_code = "OK" -> 200
      [] status_code = "BAD_REQUEST" -> 400
      [] status_code = "INTERNAL_SERVER_ERROR" -> 500

\* json.dumps(obj): the JSON text of obj, kept as the object it encodes
JsonDumps(obj) == [json |-> obj]

BINARY_TYPES ==
    {"application/octet-stream", "application/x-protobuf",
     "application/x-tar", "application/zip", "image/png", "image/jpeg",
     "image/jpg", "image/tiff", "image/webp", "image/jp2"}

\* 'Unsupported compression mode: '
UnsupportedCompressionText ==
    <<"U", "n", "s", "u", "p", "p", "o", "r", "t", "e", "d", " ", "c",
      "o", "m", "p", "r", "e", "s", "s", "i", "o", "n", " ", "m", "o",
      "d", "e", ":", " ">>

\* API.response(response, cors, accepted_methods, accepted_compression,
\* compression, b64encode, ttl, cache_control): the message returned to
\* the gateway. Compressed and base64-encoded bodies are kept as the body
\* they encode, marked with the encoding.
ApiResponse(response, cors, accepted_methods, accepted_compression, compression, b64encode, ttl, cache_control) ==
    LET ok == response.status_code = "OK"
        compress == compression # <<>> /\ Contains(accepted_compression,
                                                  compression)
        Typed(headers) ==
            DictSet(headers, "Content-Type", response.content_type)
        Cors(headers) ==
            IF ~cors THEN headers
            ELSE DictSet(DictSet(DictSet(headers,
                     "Access-Control-Allow-Origin", "*"),
                     "Access-Control-Allow-Methods",
                     [join |-> accepted_methods]),
                     "Access-Control-Allow-Credentials", "true")
        Encoded(headers) ==
            IF compress THEN DictSet(headers, "Content-Encoding", compression)
            ELSE headers
        Cached(headers) ==
            IF ttl # 0
            THEN DictSet(headers, "Cache-Control",
                         IF ok THEN [max_age |-> ttl] ELSE "no-cache")
            ELSE IF Truthy(cache_control)
            THEN DictSet(headers, "Cache-Control",
                         IF ok THEN cache_control ELSE "no-cache")
            ELSE headers
        Message(headers, body) ==
            IF /\ response.content_type \in BINARY_TYPES \/ compress
               /\ b64encode
            THEN [headers |-> headers,
                  statusCode |-> StatusValue(response.status_code),
                  isBase64Encoded |-> TRUE,
                  body |-> [b64encode |-> body]]
            ELSE [headers |-> headers,
                  statusCode |-> StatusValue(response.status_code),
                  body |-> body]
    IN IF compress /\ compression \notin {Gzip, Zlib, Deflate}
       THEN [headers |-> <<<<"Content-Type", "application/json">>>>,
             statusCode |-> StatusValue("INTERNAL_SERVER_ERROR"),
             body |-> JsonDumps([errorMessage |->
                                     UnsupportedCompressionText
                                         \o compression])]
       ELSE Message(Cached(Encoded(Cors(Typed(
                        DictOrEmpty(response.headers))))),
                    IF compress
                    THEN [compress |-> compression, data |-> response.body]
                    ELSE response.body)

\* A bug _validate_token could have: a request is let through when the
\* environment sets no TOKEN.
ValidateTokenUnlessUnset(token, env_token) ==
    IF ~Truthy(env_token) THEN TRUE
    ELSE IF ~Truthy(token) THEN FALSE
    ELSE token = env_token

\* API._validate_token(token), with env_token = os.environ.get("TOKEN")
ValidateToken(token, env_token) ==
    IF ~Truthy(token) \/ ~Truthy(env_token) THEN FALSE
    ELSE token = env_token

\* self.request_path before the first dispatch: the attribute is not set
NoPathInfo == [unset |-> TRUE]

\* A bug host could have: the mount prefix, api-prefix included, is
\* appended to the host.
HostWithPrefix(self, event) ==
    IF event.headers.kind = "absent" THEN Raise("KeyError")
    ELSE IF event.headers.kind = "None" \/ self.request_path = NoPathInfo
    THEN Raise("AttributeError")
    ELSE Ok((IF self.https THEN <<"h", "t", "t", "p", "s">>
             ELSE <<"h", "t", "t", "p">>)
            \o <<":", "/", "/">>
            \o DictGetOr(event.headers.dict, XForwardedHostKey,
                         DictGetOr(event.headers.dict, HostKey, <<>>))
            \o Prefix(self.request_path))

\* API.host, read when self.event is the dict event
Host(self, event) ==
    LET Suffix(path_info) ==
            IF /\ Truthy(path_info.apigw_stage)
               /\ path_info.apigw_stage # DefaultStage
            THEN Slash \o path_info.apigw_stage
            ELSE path_info.path_mapping
    IN IF event.headers.kind = "absent" THEN Raise("KeyError")
       ELSE IF event.headers.kind = "None" \/ self.request_path = NoPathInfo
       THEN Raise("AttributeError")
       ELSE Ok((IF self.https THEN <<"h", "t", "t", "p", "s">>
                ELSE <<"h", "t", "t", "p">>)
               \o <<":", "/", "/">>
               \o DictGetOr(event.headers.dict, XForwardedHostKey,
                            DictGetOr(event.headers.dict, HostKey, <<>>))
               \o Suffix(self.request_path))

\* '/openapi.json'
OpenapiUrl ==
    <<"/", "o", "p", "e", "n", "a", "p", "i", ".", "j", "s", "o", "n">>

\* route_entry.endpoint(**function_kwargs): the response returned or the
\* exception raised, and what the handler read of the API object. The
\* handlers: "view" declares the placeholders of its route and takes any
\* other keyword argument; "event_view" is such a view
\* wrapped by pass_event and pass_context; "failing_view" raises
\* Exception('boom'); "_openapi", "_swagger_ui_html" and "_redoc_ui_html"
\* are the documentation handlers of setup_docs, which take no argument
\* and read the mount prefix.
\* The place in the heap of the Response object the application builds once
\* and returns from every call of its handler, as the Mock of
\* test_API_custom_headers does
SharedRef == 3

\* Response(status_code=StatusCode.OK, content_type="text/plain", body=...,
\*          headers={"X-Custom-Header": ...})
SharedResponse ==
    [status_code |-> "OK", content_type |-> "text/plain",
     body |-> <<"o", "k">>,
     headers |-> AsDict(<<<<"X-Custom-Header", "v">>>>)]

\* The object a handler returned: the Response itself, or the one in the heap
ResponseOf(h, response) ==
    IF "ref" \in DOMAIN response THEN h[response.ref] ELSE response

CallEndpoint(endpoint, function_kwargs, self) ==
    LET Plain == <<"o", "k">>
        Doc(content_type, body) ==
            IF function_kwargs # <<>>
            THEN [err |-> "TypeError",
                  val |-> [unexpected_keyword |-> function_kwargs[1][1]],
                  seen |-> NoneVal]
            ELSE IF self.request_path = NoPathInfo
            THEN [err |-> "AttributeError",
                  val |-> [no_attribute |-> "request_path"],
                  seen |-> NoneVal]
            ELSE [err |-> "None",
                  val |-> Response("OK", content_type, body),
                  seen |-> [prefix |-> Prefix(self.request_path)]]
    IN CASE endpoint = "view" ->
                [err |-> "None",
                 val |-> Response("OK", "text/plain", Plain),
                 seen |-> NoneVal]
         [] endpoint = "event_view" ->
                [err |-> "None",
                 val |-> Response("OK", "text/plain", Plain),
                 seen |-> [event |-> self.event, context |-> self.context]]
         [] endpoint = "shared_view" ->
                [err |-> "None", val |-> [ref |-> SharedRef],
                 seen |-> NoneVal]
         [] endpoint = "failing_view" ->
                [err |-> "Exception", val |-> <<"b", "o", "o", "m">>,
                 seen |-> NoneVal]
         [] endpoint = "_openapi" ->
                Doc("application/json",
                    JsonDumps([openapi_prefix |->
                                   IF self.request_path = NoPathInfo THEN NoneVal
                                   ELSE Prefix(self.request_path)]))
         [] endpoint \in {"_swagger_ui_html", "_redoc_ui_html"} ->
                Doc("text/html",
                    [template |-> endpoint,
                     openapi_url |->
                         IF self.request_path = NoPathInfo THEN NoneVal
                         ELSE Prefix(self.request_path) \o OpenapiUrl])

\* A bug the except branch could have: the error is answered as a bad
\* request.
HandlerErrorAsBadRequest(err) ==
    Response("BAD_REQUEST", "application/json",
             JsonDumps([errorMessage |-> [str |-> err]]))

\* except Exception as err: the Response of the except branch; str(err)
\* is kept as the value raised
HandlerError(err) ==
    Response("INTERNAL_SERVER_ERROR", "application/json",
             JsonDumps([errorMessage |-> [str |-> err]]))

\* self.response(Response(status_code, "application/json", body)): the
\* message of an error found by the dispatcher itself
ErrorResponse(status_code, body) ==
    ApiResponse(Response(status_code, "application/json", JsonDumps(body)),
                FALSE, <<>>, <<>>, <<>>, FALSE, 0, NoneVal)

\* 'Missing or invalid path'
MissingPathText ==
    <<"M", "i", "s", "s", "i", "n", "g", " ", "o", "r", " ", "i", "n",
      "v", "a", "l", "i", "d", " ", "p", "a", "t", "h">>
\* 'No view function for: '
NoViewText ==
    <<"N", "o", " ", "v", "i", "e", "w", " ", "f", "u", "n", "c", "t",
      "i", "o", "n", " ", "f", "o", "r", ":", " ">>
\* 'Invalid access token'
InvalidTokenText ==
    <<"I", "n", "v", "a", "l", "i", "d", " ", "a", "c", "c", "e", "s",
      "s", " ", "t", "o", "k", "e", "n">>

\* The text of an HTTP method
MethodText(method) ==
    CASE method = "GET" -> <<"G", "E", "T">>
      [] method = "POST" -> <<"P", "O", "S", "T">>

\* f"No view function for: {http_method} - {self.request_path.path}"
NoViewMessage(http_method, path) ==
    NoViewText \o MethodText(http_method) \o <<" ", "-", " ">> \o PyStr(path)

\* The local variables of a call of API.__call__ that has not started;
\* event is the event as the caller handed it in, invoked lists the handler
\* calls made.
IdleCall ==
    [pc |-> "idle", event |-> NoneVal, context |-> NoneVal,
     route_entry |-> 0, url |-> NoneVal,
     request_params |-> NoneVal, function_kwargs |-> NoneVal,
     invoked |-> <<>>, response |-> NoneVal, result |-> NoneVal]

\* The call t ends: it returns or raises result.
Done(t, result) ==
    calls' = [calls EXCEPT ![t].pc = "done", ![t].result = result]

\* app(event, context): the call t starts
Call(t, event, context) ==
    /\ calls[t].pc = "idle"
    /\ heap[t] = NoneVal
    /\ heap' = [heap EXCEPT ![t] = event]
    /\ calls' = [calls EXCEPT ![t].pc = "event", ![t].event = event,
                              ![t].context = context]
    /\ UNCHANGED <<routes, pre, op, arg, res, api, environ>>

\* self.event = event
SetEvent(t) ==
    /\ calls[t].pc = "event"
    /\ api' = [api EXCEPT !.event = t]
    /\ calls' = [calls EXCEPT ![t].pc = "context"]
    /\ UNCHANGED <<routes, pre, op, arg, res, heap, environ>>

\* self.context = context
SetContext(t) ==
    /\ calls[t].pc = "context"
    /\ api' = [api EXCEPT !.context = calls[t].context]
    /\ calls' = [calls EXCEPT ![t].pc = "headers"]
    /\ UNCHANGED <<routes, pre, op, arg, res, heap, environ>>

\* headers = self.event.get("headers", {}) or {}
\* self.event["headers"] = dict((key.lower(), value) for ...)
LowerHeaders(t) ==
    /\ calls[t].pc = "headers"
    /\ heap' = [heap EXCEPT ![api.event].headers =
                    AsDict(LowerKeys(DictOrEmpty(@)))]
    /\ calls' = [calls EXCEPT ![t].pc = "path"]
    /\ UNCHANGED <<routes, pre, op, arg, res, api, environ>>

\* self.request_path = ApigwPath(self.event)
SetRequestPath(t) ==
    /\ calls[t].pc = "path"
    /\ \E p \in {ApigwPathOf(heap[api.event])} :
           IF p.err # "None"
           THEN Done(t, p) /\ UNCHANGED api
           ELSE /\ api' = [api EXCEPT !.request_path = p.val]
                /\ calls' = [calls EXCEPT ![t].pc = "check"]
    /\ UNCHANGED <<routes, pre, op, arg, res, heap, environ>>

\* if self.request_path.path is None: return the 400 response
CheckPath(t) ==
    /\ calls[t].pc = "check"
    /\ IF api.request_path.path = NoneVal
       THEN Done(t, Ok(ErrorResponse("BAD_REQUEST",
                                     [errorMessage |-> MissingPathText])))
       ELSE calls' = [calls EXCEPT ![t].pc = "match"]
    /\ UNCHANGED <<routes, pre, op, arg, res, api, heap, environ>>

\* http_method = event["httpMethod"]
\* route_entry = self._url_matching(self.request_path.path, http_method)
\* if not route_entry: return the 400 response
MatchRoute(t) ==
    /\ calls[t].pc = "match"
    /\ \E url \in {api.request_path.path} :
           IF url = NoneVal THEN Done(t, Raise("TypeError"))
           ELSE \E route_entry \in
                        {UrlMatching(routes, url, heap[t].httpMethod)} :
                    IF route_entry = 0
                    THEN Done(t, Ok(ErrorResponse("BAD_REQUEST",
                             [errorMessage |->
                                  NoViewMessage(heap[t].httpMethod, url)])))
                    ELSE calls' = [calls EXCEPT ![t].pc = "token",
                                                ![t].url = url,
                                                ![t].route_entry = route_entry]
    /\ UNCHANGED <<routes, pre, op, arg, res, api, heap, environ>>

\* request_params = event.get("queryStringParameters", {}) or {}
\* if route_entry.token and not self._validate_token(...): return the 500
\* response; request_params.pop("access_token", False)
CheckToken(t) ==
    /\ calls[t].pc = "token"
    /\ \E request_params \in {DictOrEmpty(heap[t].queryStringParameters)} :
           IF /\ routes[calls[t].route_entry].token
              /\ ~ValidateToken(DictGet(request_params, AccessTokenKey),
                                EventGet(environ, NoneVal))
           THEN /\ Done(t, Ok(ErrorResponse("INTERNAL_SERVER_ERROR",
                                  [message |-> InvalidTokenText])))
                /\ UNCHANGED heap
           ELSE /\ calls' = [calls EXCEPT
                                 ![t].pc = "kwargs",
                                 ![t].request_params =
                                     DictPop(request_params, AccessTokenKey)]
                /\ heap' = [heap EXCEPT ![t].queryStringParameters.dict =
                                DictPop(@, AccessTokenKey)]
    /\ UNCHANGED <<routes, pre, op, arg, res, api, environ>>

\* function_kwargs = self._get_matching_args(route_entry,
\*                                           self.request_path.path)
\* function_kwargs.update(request_params.copy())
\* if http_method in ["POST", "PUT", "PATCH"] and event.get("body"): ...
BuildKwargs(t) ==
    /\ calls[t].pc = "kwargs"
    /\ LET WithBody(kwargs) ==
               IF /\ heap[t].httpMethod \in {"POST", "PUT", "PATCH"}
                  /\ Truthy(heap[t].body)
               THEN DictSet(kwargs, BodyKey,
                            StrVal(IF heap[t].isBase64Encoded
                                   THEN B64Decode(heap[t].body)
                                   ELSE heap[t].body))
               ELSE kwargs
       IN \E args \in
                 {IF api.request_path.path = NoneVal THEN Raise("TypeError")
                  ELSE GetMatchingArgs(routes[calls[t].route_entry],
                                       api.request_path.path)} :
              IF args.err # "None" THEN Done(t, args)
              ELSE calls' = [calls EXCEPT
                                 ![t].pc = "invoke",
                                 ![t].function_kwargs =
                                     WithBody(DictUpdate(args.val,
                                         StrValues(calls[t].request_params)))]
    /\ UNCHANGED <<routes, pre, op, arg, res, api, heap, environ>>

\* try: response = route_entry.endpoint(**function_kwargs)
\* except Exception as err: response = the 500 response of str(err)
Invoke(t) ==
    /\ calls[t].pc = "invoke"
    /\ \E r \in {CallEndpoint(routes[calls[t].route_entry].endpoint,
                              calls[t].function_kwargs, api)} :
           calls' = [calls EXCEPT
                         ![t].pc = "respond",
                         ![t].invoked =
                             <<[endpoint |->
                                    routes[calls[t].route_entry].endpoint,
                                kwargs |-> calls[t].function_kwargs,
                                seen |-> r.seen,
                                err |-> r.err,
                                raised |-> IF r.err = "None" THEN NoneVal
                                           ELSE r.val]>>,
                         ![t].response =
                             IF r.err = "None" THEN r.val
                             ELSE HandlerError(r.val)]
    /\ UNCHANGED <<routes, pre, op, arg, res, api, heap, environ>>

\* return self.response(response=response, cors=route_entry.cors, ...,
\*     accepted_compression=self.event["headers"].get("accept-encoding", ""),
\*     ...)
Respond(t) ==
    /\ calls[t].pc = "respond"
    /\ LET Built(route, headers) ==
               IF headers.kind = "absent" THEN Raise("KeyError")
               ELSE IF headers.kind = "None" THEN Raise("AttributeError")
               ELSE Ok(ApiResponse(ResponseOf(heap, calls[t].response),
                                   route.cors,
                                   route.methods,
                                   DictGetOr(headers.dict, AcceptEncodingKey,
                                             <<>>),
                                   route.compression, route.b64encode,
                                   route.ttl, route.cache_control))
           built == Built(routes[calls[t].route_entry],
                          heap[api.event].headers)
           response == calls[t].response
       IN /\ Done(t, built)
          /\ heap' = IF /\ built.err = "None"
                        /\ "ref" \in DOMAIN response
                        /\ DictOrEmpty(heap[response.ref].headers) # <<>>
                     THEN [heap EXCEPT ![response.ref].headers =
                                           AsDict(built.val.headers)]
                     ELSE heap
    /\ UNCHANGED <<routes, pre, op, arg, res, api, environ>>

-----------------------------------------------------------------------------
(* The application the requests are dispatched to, and the events.         *)

\* '/docs' '/redoc' '/t' '/e' '/t/u' '/nope' '/f' '/u' '/u12'
PathF == <<"/", "f">>
PathU == Slash \o ValWord
PathUNum == Slash \o ValWord \o ValInt
PathDocs == <<"/", "d", "o", "c", "s">>
PathRedoc == <<"/", "r", "e", "d", "o", "c">>
PathT == <<"/", "t">>
PathE == <<"/", "e">>
PathS == <<"/", "s">>
PathP == <<"/", "p">>
PathUnderT == <<"/", "t", "/", "u">>
PathNope == Slash \o Nope
\* '/u/12' '/u/12\n' '/u/1x5'
PathUserInt == Slash \o ValWord \o Slash \o ValInt
PathUserIntNewline == Slash \o ValWord \o Slash \o ValIntNewline
PathUserFloatLax == Slash \o ValWord \o Slash \o ValFloatLax

\* The keyword arguments of a registration that names only these options
Options(methods, cors, token) ==
    [has_methods |-> methods # <<>>, methods |-> methods, unknown |-> FALSE,
     payload_compression_method |-> <<>>, cors |-> cors, token |-> token]

\* The registrations, in order: the three documentation routes of
\* setup_docs, which API.__init__ calls, then the application's routes.
AppRoutes ==
    <<[path |-> OpenapiUrl, endpoint |-> "_openapi",
       kwargs |-> Options(<<>>, TRUE, FALSE)],
      [path |-> PathDocs, endpoint |-> "_swagger_ui_html",
       kwargs |-> Options(<<>>, TRUE, FALSE)],
      [path |-> PathRedoc, endpoint |-> "_redoc_ui_html",
       kwargs |-> Options(<<>>, TRUE, FALSE)],
      [path |-> TplBareInt, endpoint |-> "view",
       kwargs |-> Options(<<"GET">>, FALSE, FALSE)],
      [path |-> TplStringFloat, endpoint |-> "view",
       kwargs |-> Options(<<"GET">>, FALSE, FALSE)],
      [path |-> PathT, endpoint |-> "view",
       kwargs |-> Options(<<"GET", "POST">>, TRUE, TRUE)],
      [path |-> PathE, endpoint |-> "event_view",
       kwargs |-> Options(<<"GET">>, FALSE, FALSE)],
      [path |-> TplRegexGroup, endpoint |-> "view",
       kwargs |-> Options(<<"GET">>, FALSE, FALSE)],
      [path |-> PathF, endpoint |-> "failing_view",
       kwargs |-> Options(<<"GET">>, FALSE, FALSE)],
      [path |-> PathS, endpoint |-> "shared_view",
       kwargs |-> Options(<<"GET">>, TRUE, FALSE)],
      [path |-> PathP, endpoint |-> "shared_view",
       kwargs |-> Options(<<"GET">>, FALSE, FALSE)]>>

\* The route table after the first n registrations
RECURSIVE Registered(_)
Registered(n) ==
    IF n = 0 THEN <<>>
    ELSE AddRouteTo(Registered(n - 1), AppRoutes[n].path,
                    AppRoutes[n].endpoint, AppRoutes[n].kwargs).routes

\* 'yo' and 'no': the value of TOKEN and another token
Tok == <<"y", "o">>
BadTok == <<"n", "o">>
\* 'q'
ValQ == <<"q">>
\* 'a': the name of the first placeholder of '/<a>/<int:n>'
KeyA == <<"a">>
\* 'eA==': base64 of 'x'
BodyX64 == <<"e", "A", "=", "=">>

\* The ways an event reaches the function
Shapes ==
    {"direct", "stage", "default", "mapped", "no headers", "unresolved",
     "no parameters", "no path"}

\* The event of a request for the logical path p that reaches the function
\* in the way shape. b64 is the truth value of event.get("isBase64Encoded").
EventOf(shape, p, method, query, body, b64) ==
    LET proxy == [kind |-> "dict", dict |-> <<<<KeyProxy, Drop(p, 2)>>>>]
        none == [kind |-> "absent", dict |-> <<>>]
        nostage == [present |-> FALSE, stage |-> Absent]
        custom == AsDict(<<<<<<"H", "o", "s", "t">>, HostCustom>>>>)
        Ev(headers, ctx, resource, params, path, version) ==
            [headers |-> headers, requestContext |-> ctx,
             resource |-> resource, pathParameters |-> params,
             path |-> path, version |-> version, httpMethod |-> method,
             queryStringParameters |-> query, body |-> body,
             isBase64Encoded |-> b64]
    IN CASE shape = "direct" ->
                Ev(custom, nostage, Absent, none, p, Absent)
         [] shape = "stage" ->
                Ev(AsDict(<<<<<<"X", "-", "F", "o", "r", "w", "a", "r", "d",
                                "e", "d", "-", "H", "o", "s", "t">>,
                              HostManaged>>>>),
                   [present |-> TRUE, stage |-> StageProd], ResApiProxy,
                   proxy, <<"/", "a", "p", "i">> \o p, Absent)
         [] shape = "default" ->
                Ev(AsDict(<<<<XForwardedHostKey, HostManaged>>,
                            <<<<"H", "o", "s", "t">>, HostCustom>>>>),
                   [present |-> TRUE, stage |-> DefaultStage], ResProxy,
                   proxy, p, Version1)
         [] shape = "mapped" ->
                Ev(custom, nostage, ResApiProxy, proxy,
                   <<"/", "m", "/", "a", "p", "i">> \o p, Absent)
         [] shape = "no headers" ->
                Ev(NoDict, nostage, Absent, none, p, Absent)
         [] shape = "unresolved" ->
                Ev(custom, nostage, ResProxy,
                   [kind |-> "dict", dict |-> <<>>], Absent, Absent)
         [] shape = "no parameters" ->
                Ev(custom, nostage, ResProxy, none, p, Absent)
         [] shape = "no path" ->
                Ev(custom, nostage, Absent, none, Absent, Absent)

\* The logical paths requested
DispatchPaths ==
    {PathUserInt, PathUserIntNewline, PathUserFloatLax, PathT, PathUnderT,
     PathE, PathDocs, OpenapiUrl, PathNope, PathF, PathU, PathUNum}

\* The query strings: none, and dicts with access_token, body and the name
\* of a placeholder
Queries ==
    {AbsentDict, NoDict, AsDict(<<<<KeyA, ValQ>>>>),
     AsDict(<<<<AccessTokenKey, Tok>>>>),
     AsDict(<<<<AccessTokenKey, BadTok>>>>),
     AsDict(<<<<AccessTokenKey, <<>>>>>>),
     AsDict(<<<<AccessTokenKey, Tok>>, <<KeyA, ValQ>>>>),
     AsDict(<<<<BodyKey, ValQ>>, <<AccessTokenKey, Tok>>>>)}

\* The bodies: none, a text, a base64 text
Bodies ==
    {[body |-> Absent, b64 |-> FALSE], [body |-> ValX, b64 |-> FALSE],
     [body |-> BodyX64, b64 |-> TRUE]}

\* The events dispatched one at a time
DispatchEvents ==
    {EventOf(shape, p, "GET", AbsentDict, Absent, FALSE) :
         shape \in Shapes, p \in DispatchPaths}
    \cup {EventOf("direct", p, method, query, b.body, b.b64) :
              p \in {PathUserInt, PathT, PathDocs}, method \in HttpMethods,
              query \in Queries, b \in Bodies}

\* The events dispatched concurrently
ConcurrentEvents ==
    {EventOf("direct", p, "GET", AbsentDict, Absent, FALSE) :
         p \in {PathUserInt, PathE, PathDocs}}
    \cup {EventOf("stage", PathDocs, "GET", AbsentDict, Absent, FALSE),
          EventOf("no path", PathE, "GET", AbsentDict, Absent, FALSE)}

\* The context the runtime hands to the call t
ContextOf(t) == [aws_request_id |-> t]

-----------------------------------------------------------------------------
(* Dispatch: API(name), the registrations, then app(event, context), one   *)
(* statement of __call__ at a time. In SpecDispatch one call runs; in      *)
(* SpecConcurrent two threads call the same API object and their           *)
(* statements interleave.                                                  *)

\* No event has been handed in; the application's Response object exists
InitHeap ==
    [t \in {1, 2, SharedRef} |->
         IF t = SharedRef THEN SharedResponse ELSE NoneVal]

InitDispatch ==
    /\ routes = Registered(Len(AppRoutes))
    /\ pre = <<>>
    /\ op = "dispatch"
    /\ arg = NoneVal
    /\ res = NoneVal
    /\ api \in [event : {0}, context : {<<>>}, request_path : {NoPathInfo},
                https : BOOLEAN]
    /\ heap = InitHeap
    /\ calls = [t \in {1, 2} |-> IdleCall]
    /\ environ \in {Absent, <<>>, Tok}

\* The statements of the call t
Step(t) ==
    \/ SetEvent(t)
    \/ SetContext(t)
    \/ LowerHeaders(t)
    \/ SetRequestPath(t)
    \/ CheckPath(t)
    \/ MatchRoute(t)
    \/ CheckToken(t)
    \/ BuildKwargs(t)
    \/ Invoke(t)
    \/ Respond(t)

NextDispatch ==
    \/ \E event \in DispatchEvents : Call(1, event, ContextOf(1))
    \/ Step(1)

SpecDispatch == InitDispatch /\ [][NextDispatch]_vars

InitConcurrent ==
    /\ routes = Registered(Len(AppRoutes))
    /\ pre = <<>>
    /\ op = "dispatch"
    /\ arg = NoneVal
    /\ res = NoneVal
    /\ api = [event |-> 0, context |-> <<>>, request_path |-> NoPathInfo,
              https |-> TRUE]
    /\ heap = InitHeap
    /\ calls = [t \in {1, 2} |-> IdleCall]
    /\ environ = Absent

NextConcurrent ==
    \E t \in {1, 2} :
        \/ \E event \in ConcurrentEvents : Call(t, event, ContextOf(t))
        \/ Step(t)

SpecConcurrent == InitConcurrent /\ [][NextConcurrent]_vars

-----------------------------------------------------------------------------
(* Properties of the dispatcher.                                           *)

\* The call t has ended.
Ended(t) == calls[t].pc = "done"

\* The forwarded host of the event e, the host when there is none, else ''
\* (header names compared without regard to case)
HostOf(e) ==
    LET h == LowerKeys(DictOrEmpty(e.headers))
    IN IF XForwardedHostKey \in DictKeys(h) THEN DictGet(h, XForwardedHostKey)
       ELSE IF HostKey \in DictKeys(h) THEN DictGet(h, HostKey)
       ELSE <<>>

\* 'https://' or 'http://'
SchemeOf(https) ==
    IF https THEN <<"h", "t", "t", "p", "s", ":", "/", "/">>
    ELSE <<"h", "t", "t", "p", ":", "/", "/">>

\* The host property is read after a call that built the PathInfo of its
\* event.
HostRead == Ended(1) /\ api.request_path # NoPathInfo

PathDetermined(e) ==
    \/ e.path # Absent
    \/ LET r == EventGet(e.resource, <<>>)
       IN /\ EndsInGreedyPlaceholder(r)
          /\ e.pathParameters.kind = "dict"
          /\ GreedyName(r) \in DictKeys(e.pathParameters.dict)

\* The message self.response builds for an error of the dispatcher
ErrorMessage(status, body) ==
    [headers |-> <<<<"Content-Type", "application/json">>>>,
     statusCode |-> status, body |-> [json |-> body]]

\* C14: the dispatch of an event whose logical path cannot be determined
\* returns the 400 response 'Missing or invalid path', raises nothing and
\* invokes no handler.
UndeterminedPathIsBadRequest ==
    (Ended(1) /\ ~PathDetermined(calls[1].event)) =>
        /\ calls[1].result =
               Ok(ErrorMessage(400, [errorMessage |-> MissingPathText]))
        /\ calls[1].invoked = <<>>

\* The call t looked for a route for the method and the logical path url.
Looked(t, url) ==
    /\ Ended(t)
    /\ api.request_path # NoPathInfo
    /\ api.request_path.path = url
    /\ url # NoneVal

\* A route of the table is registered for the method and its expression
\* matches all of url.
SomeRouteMatches(url, method) ==
    \E i \in 1..Len(routes) :
        InList(method, routes[i].methods)
            /\ FullMatch(routes[i].route_regex, url)

\* C15: when no route matches the method and the logical path of the
\* request, the dispatch returns the 400 response 'No view function for:
\* <method> - <path>' and invokes no handler.
NoRouteIsBadRequest ==
    \A url \in DispatchPaths \cup {<<"/", "N", "o", "n", "e">>} :
        (Looked(1, url) /\ ~SomeRouteMatches(url, calls[1].event.httpMethod))
            => /\ calls[1].result =
                      Ok(ErrorMessage(400,
                             [errorMessage |->
                                  NoViewText
                                      \o MethodText(calls[1].event.httpMethod)
                                      \o <<" ", "-", " ">> \o url]))
               /\ calls[1].invoked = <<>>

\* C16: the dispatch of an event whose path matches a route returns: no
\* failure of the extraction or conversion of the arguments is raised out
\* of the call.
MatchedRequestNeverRaises ==
    (Ended(1) /\ calls[1].route_entry # 0) => calls[1].result.err = "None"

\* The PathInfo of the event of the call t itself: ApigwPath of the event
\* it was handed, with the header names in lower case
OwnPathInfo(t) ==
    ApigwPathOf([calls[t].event EXCEPT
                     !.headers = AsDict(LowerKeys(DictOrEmpty(@)))])

\* The handler calls of t that returned
Returned(t) ==
    {i \in 1..Len(calls[t].invoked) : calls[t].invoked[i].err = "None"}

\* C17: in every interleaving of two dispatches on one API object, the
\* path a call matched and extracted the arguments from, the event and the
\* context its pass_event and pass_context handler was handed, and the
\* mount prefix its documentation handler used are those of its own event.
RequestsDoNotInterfere ==
    \A t \in {1, 2} :
        /\ calls[t].url # NoneVal =>
               (OwnPathInfo(t).err = "None"
                    /\ calls[t].url = OwnPathInfo(t).val.path)
        /\ \A i \in Returned(t) :
               /\ calls[t].invoked[i].endpoint = "event_view" =>
                      /\ calls[t].invoked[i].seen.event = t
                      /\ calls[t].invoked[i].seen.context = ContextOf(t)
               /\ calls[t].invoked[i].endpoint \in
                          {"_openapi", "_swagger_ui_html", "_redoc_ui_html"} =>
                      (OwnPathInfo(t).err = "None"
                           /\ calls[t].invoked[i].seen.prefix =
                                  Prefix(OwnPathInfo(t).val))

\* The names of the placeholders of the route r
PlaceholderNames(r) ==
    LET names == ParamNames(ParamsExpr(r.path))
    IN IF names.err = "None" THEN {names.val[i] : i \in 1..Len(names.val)}
       ELSE {}

TokenRouted(t) ==
    /\ Ended(t)
    /\ calls[t].route_entry # 0
    /\ routes[calls[t].route_entry].token

\* The event of the call t has an access_token query parameter, TOKEN is
\* set in the environment, and the two are equal.
TokenPresented(t) ==
    LET query == DictOrEmpty(calls[t].event.queryStringParameters)
    IN /\ AccessTokenKey \in DictKeys(query)
       /\ environ # Absent
       /\ DictGet(query, AccessTokenKey) = environ

-----------------------------------------------------------------------------
(* Documentation paths: _path_to_openapi of the templates of the           *)
(* placeholder grammar.                                                    *)

\* The most placeholders of a template.
MaxPlaceholders == 2

\* 'n'
KeyN == <<"n">>
\* Inline patterns: '[0-1]{4}' (tests), 'a:b', 'a<b', '[^>]+'
PatBits == <<"[", "0", "-", "1", "]", "{", "4", "}">>
PatColon == <<"a", ":", "b">>
PatLess == <<"a", "<", "b">>
PatNotGreater == <<"[", "^", ">", "]", "+">>

\* The placeholders: <name>, <type:name> and <regex(pattern):name>
Placeholders ==
    [type : {<<>>}, pattern : {<<>>}, name : {KeyA, KeyN}]
    \cup [type : {<<"i", "n", "t">>, <<"u", "u", "i", "d">>},
          pattern : {<<>>}, name : {KeyN}]
    \cup [type : {<<"r", "e", "g", "e", "x">>},
          pattern : {PatBits, PatColon, PatLess, PatNotGreater},
          name : {KeyA}]

\* The source text of a placeholder
PlaceholderText(p) ==
    <<"<">> \o (IF p.type = <<>> THEN <<>>
                ELSE p.type \o (IF p.pattern = <<>> THEN <<>>
                                ELSE <<"(">> \o p.pattern \o <<")">>)
                         \o <<":">>)
            \o p.name \o <<">">>

\* The template '/v' and its placeholders, one to a segment
RECURSIVE TemplateOf(_)
TemplateOf(ps) ==
    IF ps = <<>> THEN <<"/", "v">>
    ELSE TemplateOf(SubSeq(ps, 1, Len(ps) - 1))
             \o Slash \o PlaceholderText(ps[Len(ps)])

\* The template with each placeholder rewritten to {name}
RECURSIVE Documented(_)
Documented(ps) ==
    IF ps = <<>> THEN <<"/", "v">>
    ELSE Documented(SubSeq(ps, 1, Len(ps) - 1))
             \o Slash \o <<"{">> \o ps[Len(ps)].name \o <<"}">>

PlaceholderLists ==
    UNION {[1..n -> Placeholders] : n \in 1..MaxPlaceholders}

InitOpenapi ==
    /\ routes = <<>>
    /\ pre = <<>>
    /\ op = "template"
    /\ arg \in PlaceholderLists
    /\ res = NoneVal
    /\ NoDispatch

\* _path_to_openapi(path), as RouteEntry.__init__ calls it
ToOpenapi ==
    /\ op = "template"
    /\ op' = "_path_to_openapi"
    /\ res' = PathToOpenapi(TemplateOf(arg))
    /\ UNCHANGED <<routes, pre, arg>>
    /\ UNCHANGED dvars

NextOpenapi == ToOpenapi

SpecOpenapi == InitOpenapi /\ [][NextOpenapi]_vars

\* C23: the documentation path of a template is the template with every
\* placeholder rewritten to {name} and every other character unchanged,
\* also when an inline pattern contains '<', '>' or ':'; the rewrite never
\* fails.
OpenapiRewritesPlaceholders ==
    op = "_path_to_openapi" => res = Ok(Documented(arg))

-----------------------------------------------------------------------------
(* Properties of registration and extraction.                              *)

\* C22: a registration with an unrecognised keyword fails with TypeError,
\* also when its template and a method of it are registered already.
UnknownKeywordIsTypeError ==
    (op = "add" /\ arg.kwargs.unknown) => res.err = "TypeError"

\* A registration with an unrecognised keyword named a template and a method
\* that were registered, and failed with TypeError.
UnknownKeywordOnDuplicateWitness ==
    /\ op = "add"
    /\ arg.kwargs.unknown
    /\ \E i \in SameTemplate(pre, arg.path) :
           Overlap(MethodsAsked(arg.kwargs), pre[i].methods)
    /\ res.err = "TypeError"

\* C27: a registration that raises leaves the route table as it was: the
\* same routes in the same order.
FailedRegistrationKeepsTable ==
    (op = "add" /\ res.err # "None") => routes = pre

\* A registration of recognised keywords and a new template failed for its
\* compression mode on a table that held a route.
FailedCompressionWitness ==
    /\ op = "add"
    /\ ~arg.kwargs.unknown
    /\ arg.kwargs.payload_compression_method = Nope
    /\ SameTemplate(pre, arg.path) = {}
    /\ pre # <<>>
    /\ res.err = "ValueError"
    /\ routes = pre

\* The mapping the captures of a match give when each is paired with the
\* placeholder at its position: the captures from position i on
RECURSIVE PairedFrom(_, _, _, _)
PairedFrom(groups, route_args, names, i) ==
    IF i > Len(groups) THEN <<>>
    ELSE IF groups[i] = route_args[i]
    THEN PairedFrom(groups, route_args, names, i + 1)
    ELSE <<<<names[i], Converters(groups[i], route_args[i]).val>>>>
             \o PairedFrom(groups, route_args, names, i + 1)

\* The extraction returned a mapping for a route with a capture to each
\* placeholder.
Extracted ==
    /\ op = "match"
    /\ res.route # 0
    /\ res.args.err = "None"
    /\ Len(ReMatch(pre[res.route].route_regex, arg.url).groups) =
           Len(ParamsExpr(pre[res.route].path))

\* C24: the mapping the extraction returns pairs each capture with the
\* placeholder at its position: a name has the conversion of the text
\* captured for its placeholder, and the name of a capture that is the
\* source text of its placeholder is absent.
ExtractionPairsByPosition ==
    Extracted =>
        res.args.val =
            PairedFrom(ReMatch(pre[res.route].route_regex, arg.url).groups,
                       ParamsExpr(pre[res.route].path),
                       ParamNames(ParamsExpr(pre[res.route].path)).val, 1)

-----------------------------------------------------------------------------
(* The round trip of the mount prefix.                                     *)

\* s ends with p
EndsWith(s, p) ==
    Len(p) <= Len(s) /\ SubSeq(s, Len(s) - Len(p) + 1, Len(s)) = p

\* An event without a managed-domain stage was normalised whose resource
\* ends in a greedy placeholder and whose raw path is a base path followed
\* by the api-prefix and the logical path.
MountedUnderBasePath ==
    /\ Normalized
    /\ res.val.apigw_stage = <<>>
    /\ EndsInGreedyPlaceholder(arg.resource)
    /\ arg.path # Absent
    /\ EndsWith(arg.path, res.val.api_prefix \o res.val.path)

\* C29: for such an event the path-mapping is the base path, and the mount
\* prefix followed by the logical path is the raw path.
PrefixRoundTrip ==
    MountedUnderBasePath =>
        /\ res.val.path_mapping =
               SubSeq(arg.path, 1,
                      Len(arg.path) - Len(res.val.api_prefix \o res.val.path))
        /\ Prefix(res.val) \o res.val.path = arg.path

-----------------------------------------------------------------------------
(* Properties of the handler call.                                         *)

\* The headers of a response of content type application/json built for
\* the route r: the CORS headers when and only when r has cors
JsonHeadersOf(r) ==
    <<<<"Content-Type", "application/json">>>>
        \o (IF r.cors
            THEN <<<<"Access-Control-Allow-Origin", "*">>,
                   <<"Access-Control-Allow-Methods", [join |-> r.methods]>>,
                   <<"Access-Control-Allow-Credentials", "true">>>>
            ELSE <<>>)

\* The handler of the call t raised.
HandlerRaised(t) ==
    /\ Ended(t)
    /\ calls[t].invoked # <<>>
    /\ calls[t].invoked[1].err # "None"

RoutedToGroupedPattern(t) ==
    /\ Ended(t)
    /\ calls[t].route_entry # 0
    /\ Len(ReMatch(routes[calls[t].route_entry].route_regex,
                   calls[t].url).groups)
           > Len(ParamsExpr(routes[calls[t].route_entry].path))

\* C25: the dispatch of a request that matches a route whose inline
\* pattern has a capturing group raises, and the handler is not called.
GroupedPatternRaises ==
    RoutedToGroupedPattern(1) =>
        (calls[1].result.err # "None" /\ calls[1].invoked = <<>>)

\* '/u12' was dispatched to '/<regex(u(\d+)?):a>' and IndexError came out.
GroupedPatternWitness ==
    /\ RoutedToGroupedPattern(1)
    /\ calls[1].url = PathUNum
    /\ routes[calls[1].route_entry].path = TplRegexGroup
    /\ calls[1].result.err = "IndexError"

\* The query parameters of the event of the call t
QueryOf(t) == DictOrEmpty(calls[t].event.queryStringParameters)

\* The request of the call t has a body that the handler is handed.
BodyHanded(t) ==
    /\ calls[t].event.httpMethod \in {"POST", "PUT", "PATCH"}
    /\ Truthy(calls[t].event.body)

\* C26: no handler call has an access_token keyword, and every other query
\* parameter is in the keywords with its value.
AccessTokenNeverHanded ==
    \A i \in 1..Len(calls[1].invoked) :
        /\ AccessTokenKey \notin DictKeys(calls[1].invoked[i].kwargs)
        /\ \A k \in DictKeys(QueryOf(1)) \ {AccessTokenKey} :
               DictGet(calls[1].invoked[i].kwargs, k) =
                   StrVal(DictGet(QueryOf(1), k))

\* C26 as amended: no handler call has an access_token keyword, and every
\* other query parameter is in the keywords with its value, but for a
\* parameter named body when the request has a body: the body replaces it.
AccessTokenNeverHandedBodyApart ==
    \A i \in 1..Len(calls[1].invoked) :
        /\ AccessTokenKey \notin DictKeys(calls[1].invoked[i].kwargs)
        /\ \A k \in DictKeys(QueryOf(1)) \ {AccessTokenKey} :
               IF k = BodyKey /\ BodyHanded(1)
               THEN DictGet(calls[1].invoked[i].kwargs, k) =
                        StrVal(IF calls[1].event.isBase64Encoded
                               THEN B64Decode(calls[1].event.body)
                               ELSE calls[1].event.body)
               ELSE DictGet(calls[1].invoked[i].kwargs, k) =
                        StrVal(DictGet(QueryOf(1), k))

\* The handler of the token route was called for a request with the right
\* access_token and another query parameter, and was handed the other.
AccessTokenPoppedWitness ==
    /\ Ended(1)
    /\ Len(calls[1].invoked) = 1
    /\ routes[calls[1].route_entry].token
    /\ DictKeys(QueryOf(1)) = {AccessTokenKey, KeyA}
    /\ DictKeys(calls[1].invoked[1].kwargs) = {KeyA}

-----------------------------------------------------------------------------
(* A sequence of dispatches: one caller hands events to the same API       *)
(* object, one after another. An event object may be handed in again as    *)
(* the previous dispatch left it.                                          *)

\* The number of dispatches of a sequence
MaxCalls == 3

\* The events of a sequence
SequenceEvents ==
    {EventOf("direct", p, "GET", AbsentDict, Absent, FALSE) :
         p \in {PathUserInt, PathS, PathP}}
    \cup {EventOf("direct", PathT, "GET", query, Absent, FALSE) :
              query \in {AsDict(<<<<AccessTokenKey, Tok>>>>),
                         AsDict(<<<<AccessTokenKey, Tok>>, <<KeyA, ValQ>>>>)}}

\* What a dispatch that ended gave: the value returned or the error raised,
\* and the calls of the handler
OutcomeOf(call) == [result |-> call.result, invoked |-> call.invoked]

InitSequence ==
    /\ routes = Registered(Len(AppRoutes))
    /\ pre = <<>>
    /\ op = "dispatch"
    /\ arg = 1
    /\ res = NoneVal
    /\ api = [event |-> 0, context |-> <<>>, request_path |-> NoPathInfo,
              https |-> TRUE]
    /\ heap = InitHeap
    /\ calls = [t \in {1, 2} |-> IdleCall]
    /\ environ = Tok

\* app(event, context) once more, with the event object of the dispatch
\* that has just ended
CallAgain(t) ==
    /\ calls[t].pc = "done"
    /\ arg < MaxCalls
    /\ arg' = arg + 1
    /\ op' = "again"
    /\ res' = OutcomeOf(calls[t])
    /\ calls' = [calls EXCEPT ![t] = [IdleCall EXCEPT
                                          !.pc = "event",
                                          !.event = heap[t],
                                          !.context = ContextOf(t)]]
    /\ UNCHANGED <<routes, pre, api, heap, environ>>

\* app(event, context) once more, with a new event object
CallNext(t, event) ==
    /\ calls[t].pc = "done"
    /\ arg < MaxCalls
    /\ arg' = arg + 1
    /\ op' = "next"
    /\ res' = OutcomeOf(calls[t])
    /\ heap' = [heap EXCEPT ![t] = event]
    /\ calls' = [calls EXCEPT ![t] = [IdleCall EXCEPT
                                          !.pc = "event",
                                          !.event = event,
                                          !.context = ContextOf(t)]]
    /\ UNCHANGED <<routes, pre, api, environ>>

NextSequence ==
    \/ \E event \in SequenceEvents : Call(1, event, ContextOf(1))
    \/ Step(1)
    \/ CallAgain(1)
    \/ \E event \in SequenceEvents : CallNext(1, event)

SpecSequence == InitSequence /\ [][NextSequence]_vars

\* The status of a dispatch that ended: the statusCode returned, or the
\* error raised
StatusOf(result) ==
    IF result.err = "None" THEN result.val.statusCode ELSE 0

\* C28: when the same event object is dispatched twice in succession, the
\* second dispatch ends as the first did and calls the handler as the first
\* did: same status, same response, same handler arguments.
RepeatedDispatchAgrees ==
    (op = "again" /\ calls[1].pc = "done")
        => /\ calls[1].result.err = res.result.err
           /\ StatusOf(calls[1].result) = StatusOf(res.result)
           /\ Len(calls[1].invoked) = Len(res.invoked)
           /\ calls[1].result = res.result
           /\ calls[1].invoked = res.invoked

\* The names of the three CORS headers
CorsHeaders ==
    {"Access-Control-Allow-Origin", "Access-Control-Allow-Methods",
     "Access-Control-Allow-Credentials"}

\* The call t ended with a response built from what its handler gave
Answered(t) ==
    /\ calls[t].pc = "done"
    /\ calls[t].invoked # <<>>
    /\ calls[t].result.err = "None"

====
